---- MODULE Spec2Model ----
(***************************************************************************)
(* Model of the asynchronous image-recognition workflow of                 *)
(* aws-image-recognition-poc: the use cases of app/usecase.py running on   *)
(* the client wrappers of app/client.py, driven by the lambda handlers of  *)
(* app/lambdas.py.  Every lambda invocation is an independent process; the *)
(* DynamoDB table, the S3 bucket and the two Step Functions state machines *)
(* are the only shared state.                                              *)
(***************************************************************************)
EXTENDS Integers, Sequences, FiniteSets, TLC

\* ------------------------------------------------------------------ bounds
MaxBlobs == 1        \* number of blob ids the id generator hands out
MaxUploads == 1      \* PUTs a client performs through one presigned url

BlobIds == 1..MaxBlobs

\* ------------------------------------------------- domain.RecognitionStatus
WAITING_FOR_UPLOAD == "waiting-for-upload"
UPLOAD_TIMED_OUT == "upload-timed-out"
IN_PROGRESS == "in-progress"
INVALID_BLOB_HAS_BEEN_UPLOADED == "invalid-blob-has-been-uploaded"
TOO_LARGE_BLOB_HAS_BEEN_UPLOADED == "too-large-blob-has-been-uploaded"
SUCCESS == "success"
FAILED_DUE_TO_CALLBACK_FAILURE == "failed-due-to-callback-failure"
FAILED_DUE_TO_CALLBACK_TIME_OUT == "failed-due-to-callback-time-out"
FAILED_DUE_TO_CALLBACK_CONNECTION == "failed-due-to-callback-connection"
NOT_FOUND == "not-found"
UNEXPECTED_ERROR == "unexpected-error"

RecognitionStatus ==
    { WAITING_FOR_UPLOAD, UPLOAD_TIMED_OUT, IN_PROGRESS,
      INVALID_BLOB_HAS_BEEN_UPLOADED, TOO_LARGE_BLOB_HAS_BEEN_UPLOADED,
      SUCCESS, FAILED_DUE_TO_CALLBACK_FAILURE, FAILED_DUE_TO_CALLBACK_TIME_OUT,
      FAILED_DUE_TO_CALLBACK_CONNECTION, NOT_FOUND, UNEXPECTED_ERROR }

\* ------------------------------------------------------------ callback urls
\* A url is kept as the two parts the validator looks at: the scheme in front
\* of "://" ("" when the text has no scheme part) and the host that follows.
Url(scheme, host) == [scheme |-> scheme, host |-> host]

\* the callback urls a request may carry: "foobar" is Url("", "foobar"),
\* the empty text of a request without callback_url is Url("", "")
CallbackUrls ==
    { Url(scheme, host) : scheme \in { "http", "https", "ftp", "" },
                          host \in { "foo.bar", "example.com", "localhost",
                                    "foobar", "" } }

\* hosts the URL regular expression accepts: a dotted name with a tld, or
\* localhost
WellFormedHosts == { "foo.bar", "example.com", "localhost" }

\* UrlValidator.__init__: schemes = ['http', 'https']
schemes == { "http", "https" }

\* UrlValidator.is_valid_url
is_valid_url(url) == url.scheme \in schemes /\ url.host \in WellFormedHosts

\* the urls the requests of the whole workflow carry: every url the validator
\* rejects and one it accepts (an accepted url is not looked at again)
SampleUrls ==
    { Url("http", "foo.bar") } \cup { url \in CallbackUrls : ~is_valid_url(url) }

\* ------------------------------------------------------------------- state
VARIABLES
    store,                \* DynamoDB table: blob_id -> item (attribute map)
    bucket,               \* S3 bucket: keys that hold an object
    slots,                \* keys a presigned PUT url was generated for
    uploadingExecutions,  \* execution names started on the uploading machine
    recognitionExecutions,\* execution names started on the recognition machine
    init,                 \* InitializeUploadListening invocation per blob id
    wd,                   \* CheckUploading invocation per blob id: "none",
                          \* "waiting" (execution started, in its Wait state),
                          \* "write" (blob seen missing, status write next),
                          \* "returned" (blob seen uploaded), "written"
    uploads,              \* PUTs done per key
    events,               \* undelivered S3 object-created events per key
    sr,                   \* StartRecognition invocation per blob id
    pipe,                 \* recognition state machine execution per blob id
    posts,                \* HTTP POSTs the invoker made, per blob id
    detections,           \* what detect_labels did, per blob id
    reply                 \* what GetRecognitionResult answered last,
                          \* per blob id

vars == << store, bucket, slots, uploadingExecutions, recognitionExecutions,
           init, wd, uploads, events, sr, pipe, posts, detections, reply >>

\* ------------------------------------------------------ BlobDynamoDBClient
\* An item is a map from attribute names to typed attribute values ({'S': ..},
\* {'N': ..}, {'L': ..}, {'M': ..}); the table maps the keys that hold an item
\* to their items.

\* variant of create that drops the status it is given
create_StatusDropped(table, blob_id, callback_url, status) ==
    (blob_id :> [blob_id |-> [S |-> blob_id],
                 callback_url |-> [S |-> callback_url],
                 status |-> [S |-> IN_PROGRESS]]) @@ table

\* put_item: the item replaces whatever the key held
create(table, blob_id, callback_url, status) ==
    (blob_id :> [blob_id |-> [S |-> blob_id],
                 callback_url |-> [S |-> callback_url],
                 status |-> [S |-> status]]) @@ table

\* variant of update_item that puts a new item in place of the old one
update_item_Replaces(table, blob_id, attrs) ==
    (blob_id :> (attrs @@ [blob_id |-> [S |-> blob_id]])) @@ table

\* update_item with 'SET attr = value' and no condition expression: the
\* attribute is written on the item of the key, which is created when absent
update_item(table, blob_id, attrs) ==
    LET old == IF blob_id \in DOMAIN table THEN table[blob_id]
               ELSE [blob_id |-> [S |-> blob_id]]
    IN  (blob_id :> (attrs @@ old)) @@ table

\* variant of update_status that writes the status on every item
update_status_EveryItem(table, blob_id, status) ==
    [k \in DOMAIN table \cup { blob_id } |->
        update_item(table, k, [status |-> [S |-> status]])[k]]

update_status(table, blob_id, status) ==
    update_item(table, blob_id, [status |-> [S |-> status]])

HasRecord(b) == b \in DOMAIN store
StatusOf(b) == IF HasRecord(b) /\ "status" \in DOMAIN store[b]
               THEN store[b].status.S ELSE "none"

\* ------------------------------------------------------------ BlobS3Client
\* generate_presigned_url: a PUT url for the key, valid for the ttl
generate_presigned_url(key) ==
    [method |-> "put_object", Key |-> key,
     ContentType |-> "application/octet-stream", HttpMethod |-> "PUT"]

\* head_object either answers or raises ClientError; it raises for a missing
\* key and may raise for any other reason the service has
HeadObjectOutcomes(key) ==
    IF key \in bucket THEN { "ok", "ClientError" } ELSE { "ClientError" }

\* is_uploaded: True when head_object answers, False on ClientError
is_uploaded(outcome) == outcome = "ok"

\* ------------------------------------------------------------ HTTP adapters
\* http.HTTPStatus values used by the handlers
HTTPStatus_OK == 200
HTTPStatus_CREATED == 201
HTTPStatus_BAD_REQUEST == 400
HTTPStatus_NOT_FOUND == 404

\* lambdas.Response
Response(body, status_code) == [body |-> body, status_code |-> status_code]

\* json.dumps / json.loads: the text of a body, and the body a text spells;
\* the bodies here are dicts of strings, numbers and lists, which loads
\* gives back as they were
dumps(body) == [json |-> body]
loads(text) == text.json

\* with_http_api_response_format: the HTTP API answer for a Response
with_http_api_response_format(response) ==
    [isBase64Encoded |-> FALSE,
     statusCode |-> response.status_code,
     headers |-> ("Content-Type" :> "application/json"),
     body |-> dumps(response.body)]

\* -------------------------------------------------------------------- Init
NoUrl == Url("", "")
NoResult == [kind |-> "none"]
IdleInit == [pc |-> 0, callback_url |-> NoUrl, upload_url |-> NoResult,
             result |-> NoResult, response |-> NoResult]
IdlePipe == [pc |-> "idle"]

Init ==
    /\ store = << >>
    /\ bucket = {}
    /\ slots = {}
    /\ uploadingExecutions = {}
    /\ recognitionExecutions = {}
    /\ init = [b \in BlobIds |-> IdleInit]
    /\ wd = [b \in BlobIds |-> "none"]
    /\ uploads = [b \in BlobIds |-> 0]
    /\ events = [b \in BlobIds |-> 0]
    /\ sr = [b \in BlobIds |-> 0]
    /\ pipe = [b \in BlobIds |-> IdlePipe]
    /\ posts = [b \in BlobIds |-> << >>]
    /\ detections = [b \in BlobIds |-> << >>]
    /\ reply = [b \in BlobIds |-> NoResult]

\* ------------------------------------------------ InitializeUploadListening
\* variants of the statement order: the record written before the url is
\* validated; the upload slot issued before the record exists
Order_CreateBeforeValidate ==
    << "create", "validate", "launch", "generate_presigned_url" >>
Order_SlotBeforeCreate ==
    << "validate", "generate_presigned_url", "launch", "create" >>

\* BlobStepFunctionClient.launch: the name start_execution is given for a
\* blob id, as the text in front of the id and the id; launch passes the
\* blob id with nothing in front.  The sets of executions hold the blob ids
\* whose executions were started under these names.
ExecutionName(blob_id) == [prefix |-> "", blob_id |-> blob_id]

\* BlobStepFunctionClient.launch: the input of the execution, before dumps
ExecutionInput(blob_id) == [blob_id |-> blob_id]

\* The statements of InitializeUploadListening.__call__, in program order.
InitializeUploadListeningOrder ==
    << "validate", "create", "launch", "generate_presigned_url" >>

InitDone == Len(InitializeUploadListeningOrder) + 1

\* dto.UploadInitializingResult
UploadInitializingResult(blob_id, upload_url, callback_url) ==
    [kind |-> "returned", blob_id |-> blob_id, upload_url |-> upload_url,
     callback_url |-> callback_url]

\* exception.CallbackUrlIsNotValid as raised by _validate_callback_url
CallbackUrlIsNotValid(url) ==
    [kind |-> "raised", exception |-> "CallbackUrlIsNotValid",
     message |-> "Invalid callback url supplied.",
     payload |-> [callback_url |-> url]]

\* an error of a collaborator that the use case does not catch
InfrastructureError == [kind |-> "raised", exception |-> "InfrastructureError"]

\* Dto.as_dict of a returned dto
as_dict(result) == [k \in DOMAIN result \ { "kind" } |-> result[k]]

InitializeUploadListeningHandler_handle_LetsInvalidUrlEscape(result) ==
    IF result.kind = "returned"
    THEN with_http_api_response_format(
             Response(as_dict(result), HTTPStatus_CREATED))
    ELSE [kind |-> "raised", exception |-> result.exception]

\* InitializeUploadListeningHandler.handle, given what the use case returned
\* or raised: the HTTP answer, or the exception that leaves the handler
InitializeUploadListeningHandler_handle(result) ==
    IF result.kind = "returned"
    THEN with_http_api_response_format(
             Response(as_dict(result), HTTPStatus_CREATED))
    ELSE IF result.exception = "CallbackUrlIsNotValid"
    THEN with_http_api_response_format(
             Response([description |-> result.message,
                       payload |-> result.payload], HTTPStatus_BAD_REQUEST))
    ELSE [kind |-> "raised", exception |-> result.exception]

\* the invocation when the use case is over with result: the handler answers
InitReturn(inv, result) ==
    [inv EXCEPT !.pc = InitDone,
                !.result = result,
                !.response = InitializeUploadListeningHandler_handle(result)]

\* the invocation after one more statement ran; past the last one it returns
InitAdvance(inv, b) ==
    IF inv.pc = Len(InitializeUploadListeningOrder)
    THEN InitReturn(inv, UploadInitializingResult(b, inv.upload_url,
                                                  inv.callback_url))
    ELSE [inv EXCEPT !.pc = @ + 1]

\* InitializeUploadListeningHandler.handle: a fresh blob id and the callback
\* url of the request enter the use case
InitializeUploadListeningCall(b, url) ==
    /\ init[b].pc = 0
    /\ \A c \in BlobIds : c < b => init[c].pc # 0
    /\ init' = [init EXCEPT ![b] = [IdleInit EXCEPT !.pc = 1,
                                                    !.callback_url = url]]
    /\ UNCHANGED << store, bucket, slots, uploadingExecutions,
                    recognitionExecutions, wd, uploads, events, sr, pipe, posts,
                    detections, reply >>

\* one statement of InitializeUploadListening.__call__
InitializeUploadListeningStep(b) ==
    /\ init[b].pc \in 1..Len(InitializeUploadListeningOrder)
    /\ LET inv == init[b]
           stmt == InitializeUploadListeningOrder[inv.pc]
       IN  CASE stmt = "validate" ->
                  /\ init' = [init EXCEPT ![b] =
                        IF is_valid_url(inv.callback_url)
                        THEN InitAdvance(inv, b)
                        ELSE InitReturn(inv,
                                        CallbackUrlIsNotValid(inv.callback_url))]
                  /\ UNCHANGED << store, slots, uploadingExecutions, wd >>
             [] stmt = "create" ->
                  /\ store' = create(store, b, inv.callback_url, WAITING_FOR_UPLOAD)
                  /\ init' = [init EXCEPT ![b] = InitAdvance(inv, b)]
                  /\ UNCHANGED << slots, uploadingExecutions, wd >>
             [] stmt = "launch" ->
                  /\ uploadingExecutions' = uploadingExecutions \cup {b}
                  /\ wd' = [wd EXCEPT ![b] = "waiting"]
                  /\ init' = [init EXCEPT ![b] = InitAdvance(inv, b)]
                  /\ UNCHANGED << store, slots >>
             [] stmt = "generate_presigned_url" ->
                  /\ slots' = slots \cup {b}
                  /\ init' = [init EXCEPT ![b] =
                        InitAdvance([inv EXCEPT !.upload_url =
                                        generate_presigned_url(b)], b)]
                  /\ UNCHANGED << store, uploadingExecutions, wd >>
    /\ UNCHANGED << bucket, recognitionExecutions, uploads, events, sr, pipe, posts,
                    detections, reply >>

\* a collaborator call of InitializeUploadListening.__call__ raises: the
\* exception leaves the use case and the remaining statements do not run
InitializeUploadListeningAbort(b) ==
    /\ init[b].pc \in 1..Len(InitializeUploadListeningOrder)
    /\ InitializeUploadListeningOrder[init[b].pc] # "validate"
    /\ init' = [init EXCEPT ![b] = InitReturn(init[b], InfrastructureError)]
    /\ UNCHANGED << store, bucket, slots, uploadingExecutions,
                    recognitionExecutions, wd, uploads, events, sr, pipe, posts,
                    detections, reply >>

\* ------------------------------------------------------------ CheckUploading
\* variant of the existence check that writes the time-out whatever it saw
CheckUploadingCheck_AlwaysWrites(b) ==
    /\ wd[b] = "waiting"
    /\ \E outcome \in HeadObjectOutcomes(b) :
          /\ wd' = [wd EXCEPT ![b] = IF is_uploaded(outcome) THEN "returned"
                                                             ELSE "write"]
          /\ store' = update_status(store, b, UPLOAD_TIMED_OUT)
    /\ UNCHANGED << bucket, slots, uploadingExecutions,
                    recognitionExecutions, init, uploads, events, sr, pipe, posts,
                    detections, reply >>

\* CheckUploading.__call__, first statement: the existence check.  An
\* uploaded blob ends the invocation; otherwise the status write is next.
CheckUploadingCheck(b) ==
    /\ wd[b] = "waiting"
    /\ \E outcome \in HeadObjectOutcomes(b) :
          wd' = [wd EXCEPT ![b] = IF is_uploaded(outcome) THEN "returned"
                                                          ELSE "write"]
    /\ UNCHANGED << store, bucket, slots, uploadingExecutions,
                    recognitionExecutions, init, uploads, events, sr, pipe, posts,
                    detections, reply >>

\* variant that writes the status the record was created with
CheckUploadingWrite_KeepsWaiting(b) ==
    /\ wd[b] = "write"
    /\ store' = update_status(store, b, WAITING_FOR_UPLOAD)
    /\ wd' = [wd EXCEPT ![b] = "written"]
    /\ UNCHANGED << bucket, slots, uploadingExecutions, recognitionExecutions,
                    init, uploads, events, sr, pipe, posts, detections, reply >>

\* variant of the second statement that forgets the status write
CheckUploadingWrite_NoWrite(b) ==
    /\ wd[b] = "write"
    /\ store' = store
    /\ wd' = [wd EXCEPT ![b] = "written"]
    /\ UNCHANGED << bucket, slots, uploadingExecutions, recognitionExecutions,
                    init, uploads, events, sr, pipe, posts, detections, reply >>

\* variant that marks the missing blob as not found
CheckUploadingWrite_WritesNotFound(b) ==
    /\ wd[b] = "write"
    /\ store' = update_status(store, b, NOT_FOUND)
    /\ wd' = [wd EXCEPT ![b] = "written"]
    /\ UNCHANGED << bucket, slots, uploadingExecutions, recognitionExecutions,
                    init, uploads, events, sr, pipe, posts, detections, reply >>

\* CheckUploading.__call__, second statement: the status write
CheckUploadingWrite(b) ==
    /\ wd[b] = "write"
    /\ store' = update_status(store, b, UPLOAD_TIMED_OUT)
    /\ wd' = [wd EXCEPT ![b] = "written"]
    /\ UNCHANGED << bucket, slots, uploadingExecutions, recognitionExecutions,
                    init, uploads, events, sr, pipe, posts, detections, reply >>

\* ------------------------------------------------------------------ upload
\* The client PUTs the blob through the presigned url; the bucket notifies
\* the image-has-been-uploaded lambda of the created object.
ClientUpload(b) ==
    /\ b \in slots
    /\ uploads[b] < MaxUploads
    /\ bucket' = bucket \cup {b}
    /\ uploads' = [uploads EXCEPT ![b] = @ + 1]
    /\ events' = [events EXCEPT ![b] = @ + 1]
    /\ UNCHANGED << store, slots, uploadingExecutions, recognitionExecutions,
                    init, wd, sr, pipe, posts, detections, reply >>

\* ---------------------------------------------------------- StartRecognition
\* ImageHasBeenUploadedHandler.handle: the key of the created object is the
\* blob id the use case is called with
ImageHasBeenUploaded(b) ==
    /\ events[b] > 0
    /\ sr[b] = 0
    /\ events' = [events EXCEPT ![b] = @ - 1]
    /\ sr' = [sr EXCEPT ![b] = 1]
    /\ UNCHANGED << store, bucket, slots, uploadingExecutions,
                    recognitionExecutions, init, wd, uploads, pipe, posts,
                    detections, reply >>

\* variant of the statement order: the workflow launched before the write
Order_LaunchBeforeUpdate == << "launch", "update_status" >>

\* The statements of StartRecognition.__call__, in program order.
StartRecognitionOrder == << "update_status", "launch" >>

\* BlobStepFunctionClient.launch on the recognition machine: start_execution
\* with name = blob_id starts an execution unless the name was used before
launch(b) ==
    IF b \in recognitionExecutions
    THEN UNCHANGED << recognitionExecutions, pipe >>
    ELSE /\ recognitionExecutions' = recognitionExecutions \cup {b}
         /\ pipe' = [pipe EXCEPT ![b] =
                        [pc |-> "GetLabels", event |-> [blob_id |-> b]]]

\* one statement of StartRecognition.__call__
StartRecognitionStep(b) ==
    /\ sr[b] \in 1..Len(StartRecognitionOrder)
    /\ LET stmt == StartRecognitionOrder[sr[b]]
       IN  CASE stmt = "update_status" ->
                  /\ store' = update_status(store, b, IN_PROGRESS)
                  /\ UNCHANGED << recognitionExecutions, pipe >>
             [] stmt = "launch" ->
                  /\ launch(b)
                  /\ UNCHANGED store
    /\ sr' = [sr EXCEPT ![b] = IF @ = Len(StartRecognitionOrder) THEN 0 ELSE @ + 1]
    /\ UNCHANGED << bucket, slots, uploadingExecutions, init, wd, uploads,
                    events, posts, detections, reply >>

\* ------------------------------------------------------ BlobRekognitionClient
\* Python values that are either a number or a string carry their type
Num(n) == [num |-> n]
Str(t) == [str |-> t]

\* what the detection service answers for an image
Raw1 == [Labels |-> << [Name |-> "foo", Confidence |-> Num(100),
                        Parents |-> << [Name |-> "bar"] >>] >>]

\* detect_labels: the raw answer, one of the two classified exceptions, or
\* any other error of the service
DetectOutcomes ==
    { [kind |-> "returned", value |-> Raw1],
      [kind |-> "raised", exception |-> "InvalidBlobHasBeenUploaded"],
      [kind |-> "raised", exception |-> "TooLargeBlobHasBeenUploaded"],
      [kind |-> "raised", exception |-> "ClientError"] }

\* dto.RecognitionStepFunctionResult(...).as_dict()
RecognitionStepFunctionResult(blob_id, labels) ==
    [blob_id |-> blob_id, labels |-> labels]

\* the execution ends because a step raised
Failed(exception) == [pc |-> "failed", error |-> exception]

PipeUnchanged == UNCHANGED << bucket, slots, uploadingExecutions,
                              recognitionExecutions, init, wd, uploads,
                              events, sr, reply >>

GetLabels_MarksUnclassifiedError(b) ==
    /\ pipe[b].pc = "GetLabels"
    /\ \E outcome \in DetectOutcomes :
          /\ detections' = [detections EXCEPT ![b] = Append(@, outcome)]
          /\ pipe' = [pipe EXCEPT ![b] =
                     IF outcome.kind = "returned"
                     THEN [pc |-> "TransformLabels",
                           event |-> RecognitionStepFunctionResult(
                                         pipe[b].event.blob_id, outcome.value)]
                     ELSE Failed(outcome.exception)]
          /\ store' = IF outcome.kind = "raised"
                      THEN update_status(store, b, UNEXPECTED_ERROR)
                      ELSE store
    /\ UNCHANGED posts
    /\ PipeUnchanged

\* GetLabelsHandler.handle / GetLabels.__call__: the detection result goes
\* to the next step; an exception of detect_labels is not caught
GetLabels(b) ==
    /\ pipe[b].pc = "GetLabels"
    /\ \E outcome \in DetectOutcomes :
          /\ detections' = [detections EXCEPT ![b] = Append(@, outcome)]
          /\ pipe' = [pipe EXCEPT ![b] =
                     IF outcome.kind = "returned"
                     THEN [pc |-> "TransformLabels",
                           event |-> RecognitionStepFunctionResult(
                                         pipe[b].event.blob_id, outcome.value)]
                     ELSE Failed(outcome.exception)]
    /\ UNCHANGED << store, posts >>
    /\ PipeUnchanged

\* dict.get(key, default)
Get(d, key, default) == IF key \in DOMAIN d THEN d[key] ELSE default

\* TransformLabels._transform
\* (a raw result without 'Labels' gives None, which the comprehension
\* cannot iterate)
TypeError == [kind |-> "raised", exception |-> "TypeError"]

_transform_SkipsUnnamed(raw_labels_data) ==
    IF "Labels" \notin DOMAIN raw_labels_data THEN TypeError
    ELSE LET labels == SelectSeq(raw_labels_data.Labels,
                                 LAMBDA label : "Name" \in DOMAIN label)
         IN  [i \in 1..Len(labels) |->
                [label |-> Get(labels[i], "Name", ""),
                 confidence |-> Get(labels[i], "Confidence", Str("")),
                 parents |->
                    LET ps == Get(labels[i], "Parents", << >>)
                    IN  [j \in 1..Len(ps) |-> Get(ps[j], "Name", "")]]]

_transform(raw_labels_data) ==
    IF "Labels" \notin DOMAIN raw_labels_data THEN TypeError
    ELSE LET labels == raw_labels_data.Labels
         IN  [i \in 1..Len(labels) |->
                [label |-> Get(labels[i], "Name", ""),
                 confidence |-> Get(labels[i], "Confidence", Str("")),
                 parents |->
                    LET ps == Get(labels[i], "Parents", << >>)
                    IN  [j \in 1..Len(ps) |-> Get(ps[j], "Name", "")]]]

\* TransformLabelsHandler.handle / TransformLabels.__call__
TransformLabels(b) ==
    /\ pipe[b].pc = "TransformLabels"
    /\ LET e == pipe[b].event
           out == _transform(e.labels)
       IN  pipe' = [pipe EXCEPT ![b] =
                      IF "Labels" \notin DOMAIN e.labels
                      THEN Failed(out.exception)
                      ELSE [pc |-> "SaveLabels",
                            event |-> RecognitionStepFunctionResult(e.blob_id, out)]]
    /\ UNCHANGED << store, posts, detections >>
    /\ PipeUnchanged

\* str() of a Python number or string
str(v) == IF "num" \in DOMAIN v THEN ToString(v.num) ELSE v.str

\* confidences are percentages
MaxConfidence == 100

\* float() of a string: the number it spells, ValueError otherwise
ValueError == [kind |-> "raised", exception |-> "ValueError"]
float(t) ==
    IF \E n \in 0..MaxConfidence : ToString(n) = t
    THEN Num(CHOOSE n \in 0..MaxConfidence : ToString(n) = t)
    ELSE ValueError

\* variant of save_labels that appends to the labels the item has
save_labels_Appends(table, blob_id, labels) ==
    LET data == [i \in 1..Len(labels) |->
                    [M |-> [label |-> [S |-> labels[i].label],
                            confidence |-> [N |-> str(labels[i].confidence)],
                            parents |-> [L |-> [j \in 1..Len(labels[i].parents) |->
                                                  [S |-> labels[i].parents[j]]]]]]]
        old == IF blob_id \in DOMAIN table /\ "labels" \in DOMAIN table[blob_id]
               THEN table[blob_id].labels.L ELSE << >>
    IN  update_item(table, blob_id, [labels |-> [L |-> old \o data]])

save_labels_DropsParents(table, blob_id, labels) ==
    LET data ==
          [L |-> [i \in 1..Len(labels) |->
                    [M |-> [label |-> [S |-> labels[i].label],
                            confidence |-> [N |-> str(labels[i].confidence)],
                            parents |-> [L |-> << >>]]]]]
    IN  update_item(table, blob_id, [labels |-> data])

\* BlobDynamoDBClient.save_labels
save_labels(table, blob_id, labels) ==
    LET data ==
          [L |-> [i \in 1..Len(labels) |->
                    [M |-> [label |-> [S |-> labels[i].label],
                            confidence |-> [N |-> str(labels[i].confidence)],
                            parents |-> [L |-> [j \in 1..Len(labels[i].parents) |->
                                                  [S |-> labels[i].parents[j]]]]]]]]
    IN  update_item(table, blob_id, [labels |-> data])

\* variant of get_blob that reads the parents of a label last to first
get_blob_ParentsReversed(table, blob_id) ==
    IF blob_id \notin DOMAIN table THEN [kind |-> "returned", none |-> TRUE]
    ELSE LET item == table[blob_id]
             ls == Get(Get(item, "labels", << >>), "L", << >>)
         IN  [kind |-> "returned",
              blob_id |-> item.blob_id.S,
              callback_url |-> item.callback_url.S,
              status |-> item.status.S,
              labels |->
                [i \in 1..Len(ls) |->
                   [label |-> ls[i].M.label.S,
                    confidence |-> float(ls[i].M.confidence.N),
                    parents |->
                       LET ps == ls[i].M.parents.L
                       IN  [j \in 1..Len(ps) |-> ps[Len(ps) + 1 - j].S]]]]

\* BlobDynamoDBClient.get_blob
None == [kind |-> "returned", none |-> TRUE]
AttributeError == [kind |-> "raised", exception |-> "AttributeError"]

get_blob(table, blob_id) ==
    IF blob_id \notin DOMAIN table THEN None
    ELSE LET item == table[blob_id]
             ls == Get(Get(item, "labels", << >>), "L", << >>)
         IN  IF {"callback_url", "status"} \ DOMAIN item # {}
             THEN AttributeError
             ELSE IF \E i \in 1..Len(ls) : float(ls[i].M.confidence.N) = ValueError
             THEN ValueError
             ELSE [kind |-> "returned",
                   blob_id |-> item.blob_id.S,
                   callback_url |-> item.callback_url.S,
                   status |-> item.status.S,
                   labels |->
                     [i \in 1..Len(ls) |->
                        [label |-> ls[i].M.label.S,
                         confidence |-> float(ls[i].M.confidence.N),
                         parents |-> [j \in 1..Len(ls[i].M.parents.L) |->
                                        ls[i].M.parents.L[j].S]]]]

\* SaveLabelsHandler.handle / SaveLabels.__call__
SaveLabels(b) ==
    /\ pipe[b].pc = "SaveLabels"
    /\ LET e == pipe[b].event
       IN  /\ store' = save_labels(store, e.blob_id, e.labels)
           /\ pipe' = [pipe EXCEPT ![b] =
                         [pc |-> "InvokeCallback",
                          event |-> RecognitionStepFunctionResult(e.blob_id, e.labels)]]
    /\ UNCHANGED << posts, detections >>
    /\ PipeUnchanged

\* --------------------------------------------------------------- Invoker
Invoker_SUCCESS == 0
Invoker_CALLBACK_FAILURE == 1
Invoker_CONNECTION_TIMEOUT == 2
Invoker_CONNECTION_ERROR == 3

\* container.CALLBACK_TIMEOUT
CALLBACK_TIMEOUT == 10

\* what requests.post does with one request
TransportOutcomes ==
    { [kind |-> "response", status_code |-> 204],
      [kind |-> "response", status_code |-> 200],
      [kind |-> "ConnectTimeout"],
      [kind |-> "ConnectionError"],
      [kind |-> "ReadTimeout"] }

\* requests.exceptions: the classes an exception of a class is an instance
\* of (ConnectTimeout is both a ConnectionError and a Timeout)
Bases(class) ==
    CASE class = "ConnectTimeout" ->
            { "ConnectTimeout", "ConnectionError", "Timeout", "RequestException" }
      [] class \in { "SSLError", "ProxyError" } ->
            { class, "ConnectionError", "RequestException" }
      [] class = "ReadTimeout" -> { "ReadTimeout", "Timeout", "RequestException" }
      [] class = "ConnectionError" -> { "ConnectionError", "RequestException" }
      [] OTHER -> { class, "RequestException" }

\* isinstance(exception of the class, base), as an except clause tests it
isinstance(class, base) == base \in Bases(class)

\* Invoker.invoke catches ConnectTimeout and ConnectionError only: any other
\* exception of the transport leaves invoke
InvokeRaises(outcome) ==
    outcome.kind # "response" /\ ~isinstance(outcome.kind, "ConnectionError")

invoke_TimeOutAsConnectionError(outcome) ==
    CASE outcome.kind = "response" ->
            IF outcome.status_code = 204 THEN Invoker_SUCCESS
            ELSE Invoker_CALLBACK_FAILURE
      [] isinstance(outcome.kind, "ConnectionError") ->
            Invoker_CONNECTION_ERROR

\* variant of invoke that takes every 2xx answer for a success
invoke_Any2xxIsSuccess(outcome) ==
    CASE outcome.kind = "response" ->
            IF outcome.status_code \in 200..299 THEN Invoker_SUCCESS
            ELSE Invoker_CALLBACK_FAILURE
      [] outcome.kind # "response" /\ isinstance(outcome.kind, "ConnectTimeout") ->
            Invoker_CONNECTION_TIMEOUT
      [] outcome.kind # "response" /\ isinstance(outcome.kind, "ConnectionError") ->
            Invoker_CONNECTION_ERROR

\* Invoker.invoke, given what the transport did: the except clauses are
\* tried in order, ConnectTimeout first
invoke(outcome) ==
    CASE outcome.kind = "response" ->
            IF outcome.status_code = 204 THEN Invoker_SUCCESS
            ELSE Invoker_CALLBACK_FAILURE
      [] outcome.kind # "response" /\ isinstance(outcome.kind, "ConnectTimeout") ->
            Invoker_CONNECTION_TIMEOUT
      [] outcome.kind # "response" /\ isinstance(outcome.kind, "ConnectionError") ->
            Invoker_CONNECTION_ERROR

\* variant of the status table that takes an answered callback for a success
CallbackStatus_AnsweredIsSuccess(status) ==
    CASE status = Invoker_SUCCESS -> SUCCESS
      [] status = Invoker_CALLBACK_FAILURE -> SUCCESS
      [] status = Invoker_CONNECTION_TIMEOUT -> FAILED_DUE_TO_CALLBACK_TIME_OUT
      [] status = Invoker_CONNECTION_ERROR -> FAILED_DUE_TO_CALLBACK_CONNECTION

CallbackStatus_SuccessAsFailure(status) ==
    CASE status = Invoker_SUCCESS -> FAILED_DUE_TO_CALLBACK_FAILURE
      [] status = Invoker_CALLBACK_FAILURE -> FAILED_DUE_TO_CALLBACK_FAILURE
      [] status = Invoker_CONNECTION_TIMEOUT -> FAILED_DUE_TO_CALLBACK_TIME_OUT
      [] status = Invoker_CONNECTION_ERROR -> FAILED_DUE_TO_CALLBACK_CONNECTION

\* what invoke does for the caller: the value it returns, or the exception
\* of the transport that it does not catch
InvokeResult(outcome) ==
    IF InvokeRaises(outcome)
    THEN [kind |-> "raised", exception |-> outcome.kind]
    ELSE [kind |-> "returned", value |-> invoke(outcome)]

\* the status InvokeCallback.__call__ writes for a return value of invoke
CallbackStatus(status) ==
    CASE status = Invoker_SUCCESS -> SUCCESS
      [] status = Invoker_CALLBACK_FAILURE -> FAILED_DUE_TO_CALLBACK_FAILURE
      [] status = Invoker_CONNECTION_TIMEOUT -> FAILED_DUE_TO_CALLBACK_TIME_OUT
      [] status = Invoker_CONNECTION_ERROR -> FAILED_DUE_TO_CALLBACK_CONNECTION

\* dto.BlobRecognitionResult(...).as_dict()
BlobRecognitionResult(blob_id, labels) == [blob_id |-> blob_id, labels |-> labels]

InvokeCallback_RetriesOnTimeout(b) ==
    /\ pipe[b].pc = "InvokeCallback"
    /\ LET e == pipe[b].event
           blob == get_blob(store, e.blob_id)
       IN  IF blob.kind = "raised" \/ blob = None
           THEN /\ pipe' = [pipe EXCEPT ![b] =
                       Failed(IF blob = None THEN "AttributeError"
                              ELSE blob.exception)]
                /\ UNCHANGED << store, posts >>
           ELSE \E outcome \in TransportOutcomes :
                  /\ LET post == [url |-> blob.callback_url,
                                  json |-> BlobRecognitionResult(e.blob_id, e.labels),
                                  timeout |-> CALLBACK_TIMEOUT,
                                  outcome |-> outcome,
                                  result |-> InvokeResult(outcome)]
                     IN  posts' = [posts EXCEPT ![b] =
                                     IF outcome.kind = "ConnectTimeout"
                                     THEN Append(Append(@, post), post)
                                     ELSE Append(@, post)]
                  /\ IF InvokeRaises(outcome)
                     THEN /\ pipe' = [pipe EXCEPT ![b] = Failed(outcome.kind)]
                          /\ UNCHANGED store
                     ELSE /\ store' = update_status(store, e.blob_id,
                                           CallbackStatus(invoke(outcome)))
                          /\ pipe' = [pipe EXCEPT ![b] =
                               [pc |-> "succeeded",
                                event |-> RecognitionStepFunctionResult(
                                              e.blob_id, e.labels)]]
    /\ UNCHANGED detections
    /\ PipeUnchanged

\* InvokeCallbackHandler.handle / InvokeCallback.__call__ with a transport
\* that does one of outcomes
InvokeCallback_with(b, outcomes) ==
    /\ pipe[b].pc = "InvokeCallback"
    /\ LET e == pipe[b].event
           blob == get_blob(store, e.blob_id)
       IN  IF blob.kind = "raised" \/ blob = None
           THEN /\ pipe' = [pipe EXCEPT ![b] =
                       Failed(IF blob = None THEN "AttributeError"
                              ELSE blob.exception)]
                /\ UNCHANGED << store, posts >>
           ELSE \E outcome \in outcomes :
                  /\ posts' = [posts EXCEPT ![b] = Append(@,
                         [url |-> blob.callback_url,
                          json |-> BlobRecognitionResult(e.blob_id, e.labels),
                          timeout |-> CALLBACK_TIMEOUT,
                          outcome |-> outcome,
                          result |-> InvokeResult(outcome)])]
                  /\ IF InvokeRaises(outcome)
                     THEN /\ pipe' = [pipe EXCEPT ![b] = Failed(outcome.kind)]
                          /\ UNCHANGED store
                     ELSE /\ store' = update_status(store, e.blob_id,
                                           CallbackStatus(invoke(outcome)))
                          /\ pipe' = [pipe EXCEPT ![b] =
                               [pc |-> "succeeded",
                                event |-> RecognitionStepFunctionResult(
                                              e.blob_id, e.labels)]]
    /\ UNCHANGED detections
    /\ PipeUnchanged

\* InvokeCallbackHandler.handle / InvokeCallback.__call__ with requests.post
InvokeCallback(b) == InvokeCallback_with(b, TransportOutcomes)

\* ------------------------------------------------------ unexpected errors
\* HandleUnexpectedError.__call__: the record of the blob id gets the status
\* UNEXPECTED_ERROR
HandleUnexpectedError(table, blob_id) ==
    update_status(table, blob_id, UNEXPECTED_ERROR)

\* the events the fallback is invoked with when the execution of the blob id
\* has failed: the failure with the name of the execution, which launch made
\* the blob id, or the failure alone
FallbackEvents(b) ==
    { [ExecutionName |-> b, Error |-> pipe[b].error],
      [Error |-> pipe[b].error] }

UnexpectedErrorFallbackHandler_NoNameCheck(b) ==
    /\ pipe[b].pc = "failed"
    /\ \E event \in FallbackEvents(b) :
          /\ pipe' = [pipe EXCEPT ![b] =
                        [pc |-> "fallback", error |-> pipe[b].error,
                         event |-> event]]
          /\ store' = HandleUnexpectedError(store, b)
    /\ UNCHANGED << posts, detections >>
    /\ PipeUnchanged

\* UnexpectedErrorFallbackHandler.handle: without 'ExecutionName' in the
\* event it returns at once
UnexpectedErrorFallbackHandler(b) ==
    /\ pipe[b].pc = "failed"
    /\ \E event \in FallbackEvents(b) :
          /\ pipe' = [pipe EXCEPT ![b] =
                        [pc |-> "fallback", error |-> pipe[b].error,
                         event |-> event]]
          /\ IF "ExecutionName" \notin DOMAIN event
             THEN UNCHANGED store
             ELSE store' = HandleUnexpectedError(store, event.ExecutionName)
    /\ UNCHANGED << posts, detections >>
    /\ PipeUnchanged

\* ------------------------------------------------------ GetRecognitionResult
\* an exception of exception.py with its message and payload
Raised(exception, message, payload) ==
    [kind |-> "raised", exception |-> exception, message |-> message,
     payload |-> payload]

GetRecognitionResult_OnlySuccess(table, blob_id) ==
    LET blob == get_blob(table, blob_id)
    IN  IF blob.kind = "raised" THEN blob
        ELSE IF blob = None
        THEN Raised("BlobWasNotFound", "Blob not found.",
                    [blob_id |-> blob_id, status |-> NOT_FOUND])
        ELSE IF blob.status # SUCCESS
        THEN Raised("BlobRecognitionIsInProgress", "Recognition is in progress.",
                    [blob_id |-> blob_id, status |-> blob.status])
        ELSE [kind |-> "returned",
              value |-> BlobRecognitionResult(blob_id, blob.labels)]

GetRecognitionResult_TimedOutFallsThrough(table, blob_id) ==
    LET blob == get_blob(table, blob_id)
    IN  IF blob.kind = "raised" THEN blob
        ELSE IF blob = None
        THEN Raised("BlobWasNotFound", "Blob not found.",
                    [blob_id |-> blob_id, status |-> NOT_FOUND])
        ELSE IF blob.status = WAITING_FOR_UPLOAD
        THEN Raised("BlobIsNotUploadedYet", "Blob hasn't been uploaded yet.",
                    [blob_id |-> blob_id, status |-> blob.status])
        ELSE IF blob.status = IN_PROGRESS
        THEN Raised("BlobRecognitionIsInProgress", "Recognition is in progress.",
                    [blob_id |-> blob_id, status |-> blob.status])
        ELSE [kind |-> "returned",
              value |-> BlobRecognitionResult(blob_id, blob.labels)]

\* GetRecognitionResult.__call__: what it returns or raises for the table; an
\* exception of get_blob is not caught
GetRecognitionResult(table, blob_id) ==
    LET blob == get_blob(table, blob_id)
    IN  IF blob.kind = "raised" THEN blob
        ELSE IF blob = None
        THEN Raised("BlobWasNotFound", "Blob not found.",
                    [blob_id |-> blob_id, status |-> NOT_FOUND])
        ELSE IF blob.status = WAITING_FOR_UPLOAD
        THEN Raised("BlobIsNotUploadedYet", "Blob hasn't been uploaded yet.",
                    [blob_id |-> blob_id, status |-> blob.status])
        ELSE IF blob.status = UPLOAD_TIMED_OUT
        THEN Raised("BlobUploadTimedOut", "Blob upload is timed out.",
                    [blob_id |-> blob_id, status |-> blob.status])
        ELSE IF blob.status = IN_PROGRESS
        THEN Raised("BlobRecognitionIsInProgress", "Recognition is in progress.",
                    [blob_id |-> blob_id, status |-> blob.status])
        ELSE [kind |-> "returned",
              value |-> BlobRecognitionResult(blob_id, blob.labels)]

\* the exceptions GetRecognitionResultHandler.handle catches
GetRecognitionResultHandler_Caught ==
    { "BlobWasNotFound", "BlobIsNotUploadedYet", "BlobUploadTimedOut",
      "BlobRecognitionIsInProgress", "InvalidBlobHasBeenUploaded",
      "TooLargeBlobHasBeenUploaded", "UnexpectedErrorOccurred" }

GetRecognitionResultHandler_handle_MissesUnexpectedError(outcome) ==
    IF outcome.kind = "returned"
    THEN with_http_api_response_format(Response(outcome.value, HTTPStatus_OK))
    ELSE IF outcome.exception \in
               GetRecognitionResultHandler_Caught \ { "UnexpectedErrorOccurred" }
    THEN with_http_api_response_format(
             Response([description |-> outcome.message,
                       payload |-> outcome.payload], HTTPStatus_NOT_FOUND))
    ELSE [kind |-> "raised", exception |-> outcome.exception]

\* GetRecognitionResultHandler.handle, given what the use case returned or
\* raised: the HTTP answer, or the exception that leaves the handler
GetRecognitionResultHandler_handle(outcome) ==
    IF outcome.kind = "returned"
    THEN with_http_api_response_format(Response(outcome.value, HTTPStatus_OK))
    ELSE IF outcome.exception \in GetRecognitionResultHandler_Caught
    THEN with_http_api_response_format(
             Response([description |-> outcome.message,
                       payload |-> outcome.payload], HTTPStatus_NOT_FOUND))
    ELSE [kind |-> "raised", exception |-> outcome.exception]

\* what the caller of the handler gets: the outcome of the use case and the
\* answer made of it
Answer(outcome, http) ==
    [k \in DOMAIN outcome \cup { "http" } |->
        IF k = "http" THEN http ELSE outcome[k]]

\* variant of the handler that marks the record it could not give a result
\* for
GetRecognitionResultHandler_MarksFailure(b) ==
    LET outcome == GetRecognitionResult(store, b)
    IN  /\ reply' = [reply EXCEPT ![b] =
                       Answer(outcome, GetRecognitionResultHandler_handle(outcome))]
        /\ store' = IF outcome.kind = "raised" /\ HasRecord(b)
                    THEN update_status(store, b, NOT_FOUND)
                    ELSE store
        /\ UNCHANGED << bucket, slots, uploadingExecutions, recognitionExecutions,
                        init, wd, uploads, events, sr, pipe, posts, detections >>

GetRecognitionResultHandler_Upserts(b) ==
    /\ reply' = [reply EXCEPT ![b] =
                   LET outcome == GetRecognitionResult(store, b)
                   IN  Answer(outcome, GetRecognitionResultHandler_handle(outcome))]
    /\ store' = update_item(store, b, << >>)
    /\ UNCHANGED << bucket, slots, uploadingExecutions, recognitionExecutions,
                    init, wd, uploads, events, sr, pipe, posts, detections >>

\* GetRecognitionResultHandler.handle with a use case that answers with
\* outcome
GetRecognitionResultHandler_with(b, outcome) ==
    /\ reply' = [reply EXCEPT ![b] =
                   Answer(outcome, GetRecognitionResultHandler_handle(outcome))]
    /\ UNCHANGED << store, bucket, slots, uploadingExecutions,
                    recognitionExecutions, init, wd, uploads, events, sr, pipe,
                    posts, detections >>

\* GetRecognitionResultHandler.handle for the blob id of the path, with the
\* use case of the container
GetRecognitionResultHandler(b) ==
    GetRecognitionResultHandler_with(b, GetRecognitionResult(store, b))

\* ------------------------------------------------------------ step retries
\* The orchestrator runs a completed step of the recognition machine again
\* with the event it ran with: SaveLabels after it returned, InvokeCallback
\* after its first attempt returned.
RetryStep(b) ==
    /\ \/ /\ pipe[b].pc = "InvokeCallback"
          /\ pipe' = [pipe EXCEPT ![b] =
                        [pc |-> "SaveLabels", event |-> pipe[b].event,
                         retried |-> TRUE]]
       \/ /\ pipe[b].pc = "succeeded"
          /\ Len(posts[b]) = 1
          /\ pipe' = [pipe EXCEPT ![b] =
                        [pc |-> "InvokeCallback", event |-> pipe[b].event,
                         retried |-> TRUE]]
    /\ UNCHANGED << store, posts, detections >>
    /\ PipeUnchanged

\* -------------------------------------------------------------------- Next
Next ==
    \/ \E b \in BlobIds, url \in SampleUrls : InitializeUploadListeningCall(b, url)
    \/ \E b \in BlobIds : InitializeUploadListeningStep(b)
    \/ \E b \in BlobIds : InitializeUploadListeningAbort(b)
    \/ \E b \in BlobIds : CheckUploadingCheck(b)
    \/ \E b \in BlobIds : CheckUploadingWrite(b)
    \/ \E b \in BlobIds : ClientUpload(b)
    \/ \E b \in BlobIds : ImageHasBeenUploaded(b)
    \/ \E b \in BlobIds : StartRecognitionStep(b)
    \/ \E b \in BlobIds : GetLabels(b)
    \/ \E b \in BlobIds : TransformLabels(b)
    \/ \E b \in BlobIds : SaveLabels(b)
    \/ \E b \in BlobIds : InvokeCallback(b)

Spec == Init /\ [][Next]_vars

\* The scheduling of the upload gate.  The uploading machine waits for the
\* window and then invokes CheckUploading once, which runs to its end; the
\* bucket delivers the event of every created object to the lambda, which
\* runs StartRecognition to its end.
UploadFairness ==
    \A b \in BlobIds :
        /\ WF_vars(CheckUploadingCheck(b))
        /\ WF_vars(CheckUploadingWrite(b))
        /\ WF_vars(ImageHasBeenUploaded(b))
        /\ WF_vars(StartRecognitionStep(b))

SpecUploadFair == Spec /\ UploadFairness

\* The upload gate, its watchdog and the client's upload, with every callback
\* url: the upload event is not delivered.
NextInitiate ==
    \/ \E b \in BlobIds, url \in CallbackUrls : InitializeUploadListeningCall(b, url)
    \/ \E b \in BlobIds : InitializeUploadListeningStep(b)
    \/ \E b \in BlobIds : InitializeUploadListeningAbort(b)
    \/ \E b \in BlobIds : CheckUploadingCheck(b)
    \/ \E b \in BlobIds : CheckUploadingWrite(b)
    \/ \E b \in BlobIds : ClientUpload(b)

SpecInitiate == Init /\ [][NextInitiate]_vars

\* TransformLabels on its own.  It is a function of the raw detection
\* result, so the step starts with any raw result of the bounded shapes: no
\* 'Labels', or up to MaxLabels detections, each with any subset of 'Name',
\* 'Confidence' and 'Parents'.
MaxLabels == 2       \* detections in one raw result

\* a parent of a detection, with its name or without
Parent(name) == [Name |-> name]
Nameless == [k \in {} |-> ""]
ParentLists ==
    { << >>, << Parent("bar") >>, << Parent("bar"), Parent("baz") >>,
      << Nameless, Parent("bar") >> }

\* a detection that has the fields of the set
Detection(fields, parents) ==
    [k \in fields |->
        CASE k = "Name" -> "foo"
          [] k = "Confidence" -> Num(100)
          [] k = "Parents" -> parents]

Detections ==
    { Detection(fields, parents) :
          fields \in SUBSET { "Name", "Confidence", "Parents" },
          parents \in ParentLists }

RawResults ==
    { [LabelModelVersion |-> "2.0"] }
    \cup { [Labels |-> labels] :
              labels \in UNION { [1..n -> Detections] : n \in 0..MaxLabels } }

InitTransform ==
    /\ \E b \in BlobIds, raw \in RawResults :
          pipe = [c \in BlobIds |->
                    IF c = b
                    THEN [pc |-> "TransformLabels",
                          event |-> RecognitionStepFunctionResult(b, raw)]
                    ELSE IdlePipe]
    /\ store = << >>
    /\ bucket = {}
    /\ slots = {}
    /\ uploadingExecutions = {}
    /\ recognitionExecutions = {}
    /\ init = [b \in BlobIds |-> IdleInit]
    /\ wd = [b \in BlobIds |-> "none"]
    /\ uploads = [b \in BlobIds |-> 0]
    /\ events = [b \in BlobIds |-> 0]
    /\ sr = [b \in BlobIds |-> 0]
    /\ posts = [b \in BlobIds |-> << >>]
    /\ detections = [b \in BlobIds |-> << >>]
    /\ reply = [b \in BlobIds |-> NoResult]

NextTransform == \E b \in BlobIds : TransformLabels(b)

SpecTransform == InitTransform /\ [][NextTransform]_vars

\* The workflow with the fallback of the recognition machine: a failed
\* execution is handed to UnexpectedErrorFallbackHandler.
NextFallback ==
    \/ Next
    \/ \E b \in BlobIds : UnexpectedErrorFallbackHandler(b)

SpecFallback == Init /\ [][NextFallback]_vars

\* The whole workflow with its caller: the caller asks for the result of a
\* blob once its callback URL has been posted to.
ReadResultWhenNotified(b) ==
    /\ posts[b] # << >>
    /\ GetRecognitionResultHandler(b)

NextEndToEnd ==
    \/ Next
    \/ \E b \in BlobIds : ReadResultWhenNotified(b)

SpecEndToEnd == Init /\ [][NextEndToEnd]_vars

\* The result reader on its own.  It is a function of the table, so the
\* table starts as any table of records it may be asked about: for each blob
\* id no record, or a record of any status of the enum, with no labels
\* saved or with one of the label lists saved by save_labels.
Label1 == [label |-> "foo", confidence |-> Num(100), parents |-> << "bar" >>]
Label2 == [label |-> "baz", confidence |-> Num(0), parents |-> << >>]
SavedLabelLists ==
    { << >>, << Label1 >>, << Label2 >>, << Label1, Label2 >> }

NoItem == [status |-> "none", saved |-> FALSE, labels |-> << >>]
ItemShapes ==
    { [status |-> s, saved |-> FALSE, labels |-> << >>] : s \in RecognitionStatus }
    \cup { [status |-> s, saved |-> TRUE, labels |-> l] :
              s \in RecognitionStatus, l \in SavedLabelLists }

\* the item the writers of the table leave for a shape
ItemOf(b, shape) ==
    LET created == create(<< >>, b, Url("http", "foo.bar"), WAITING_FOR_UPLOAD)
        saved == IF shape.saved THEN save_labels(created, b, shape.labels)
                 ELSE created
    IN  update_status(saved, b, shape.status)[b]

TableOf(shapes) ==
    [b \in { c \in BlobIds : shapes[c] # NoItem } |-> ItemOf(b, shapes[b])]

InitQuery ==
    /\ \E shapes \in [BlobIds -> ItemShapes \cup { NoItem }] :
          store = TableOf(shapes)
    /\ bucket = {}
    /\ slots = {}
    /\ uploadingExecutions = {}
    /\ recognitionExecutions = {}
    /\ init = [b \in BlobIds |-> IdleInit]
    /\ wd = [b \in BlobIds |-> "none"]
    /\ uploads = [b \in BlobIds |-> 0]
    /\ events = [b \in BlobIds |-> 0]
    /\ sr = [b \in BlobIds |-> 0]
    /\ pipe = [b \in BlobIds |-> IdlePipe]
    /\ posts = [b \in BlobIds |-> << >>]
    /\ detections = [b \in BlobIds |-> << >>]
    /\ reply = [b \in BlobIds |-> NoResult]

NextQuery == \E b \in BlobIds : GetRecognitionResultHandler(b)

SpecQuery == InitQuery /\ [][NextQuery]_vars

\* The record store on its own, driven as its callers drive it: create, then
\* save_labels through the SaveLabels step, and get_blob at any moment.  For
\* one blob id the table starts empty, or with the item create left for any
\* status of the enum and one of two callback urls, the labels to save
\* waiting in the SaveLabels step.
Label3 == [label |-> "1", confidence |-> Num(100), parents |-> << "foo", "bar" >>]
StoreLabelLists == SavedLabelLists \cup { << Label3 >>, << Label2, Label3, Label1 >> }
StoreUrls == { Url("http", "foo.bar"), Url("https", "example.com") }

\* BlobDynamoDBClient.get_blob called for blob id b: what it returns is kept
GetBlob(b) ==
    /\ reply' = [reply EXCEPT ![b] = get_blob(store, b)]
    /\ UNCHANGED << store, bucket, slots, uploadingExecutions,
                    recognitionExecutions, init, wd, uploads, events, sr, pipe,
                    posts, detections >>

InitStore ==
    /\ \E b \in BlobIds :
          LET only(v, idle) == [c \in BlobIds |-> IF c = b THEN v ELSE idle]
          IN  \/ /\ store = << >>
                 /\ init = only(IdleInit, IdleInit)
                 /\ pipe = only(IdlePipe, IdlePipe)
              \/ \E url \in StoreUrls, status \in RecognitionStatus,
                    labels \in StoreLabelLists :
                    /\ store = create(<< >>, b, url, status)
                    /\ init = only([IdleInit EXCEPT !.pc = 3, !.callback_url = url],
                                   IdleInit)
                    /\ pipe = only([pc |-> "SaveLabels",
                                    event |-> RecognitionStepFunctionResult(b, labels)],
                                   IdlePipe)
    /\ bucket = {}
    /\ slots = {}
    /\ uploadingExecutions = {}
    /\ recognitionExecutions = {}
    /\ wd = [b \in BlobIds |-> "none"]
    /\ uploads = [b \in BlobIds |-> 0]
    /\ events = [b \in BlobIds |-> 0]
    /\ sr = [b \in BlobIds |-> 0]
    /\ posts = [b \in BlobIds |-> << >>]
    /\ detections = [b \in BlobIds |-> << >>]
    /\ reply = [b \in BlobIds |-> NoResult]

NextStore ==
    \/ \E b \in BlobIds : SaveLabels(b)
    \/ \E b \in BlobIds : GetBlob(b)

SpecStore == InitStore /\ [][NextStore]_vars

\* The handlers invoked for a blob id that has no record: an object was put
\* in the bucket under a key no upload was initiated for (the bucket
\* notifies the lambda of every object created), an execution of the
\* uploading machine waits for such an id, or an execution of the
\* recognition machine runs for it from SaveLabels or InvokeCallback on.
\* The table is empty and no presigned url was issued.
InitOrphan ==
    \E b \in BlobIds, put \in BOOLEAN, watched \in BOOLEAN, running \in BOOLEAN,
       step \in { "SaveLabels", "InvokeCallback" }, labels \in SavedLabelLists :
        LET only(v, idle) == [c \in BlobIds |-> IF c = b THEN v ELSE idle]
        IN  /\ put \/ watched \/ running
            /\ store = << >>
            /\ bucket = IF put THEN {b} ELSE {}
            /\ slots = {}
            /\ uploadingExecutions = IF watched THEN {b} ELSE {}
            /\ recognitionExecutions = IF running THEN {b} ELSE {}
            /\ init = only(IdleInit, IdleInit)
            /\ wd = only(IF watched THEN "waiting" ELSE "none", "none")
            /\ uploads = only(IF put THEN 1 ELSE 0, 0)
            /\ events = only(IF put THEN 1 ELSE 0, 0)
            /\ sr = only(0, 0)
            /\ pipe = only(IF running
                           THEN [pc |-> step,
                                 event |-> RecognitionStepFunctionResult(b, labels)]
                           ELSE IdlePipe,
                           IdlePipe)
            /\ posts = only(<< >>, << >>)
            /\ detections = only(<< >>, << >>)
            /\ reply = only(NoResult, NoResult)

NextOrphan ==
    \/ \E b \in BlobIds : CheckUploadingCheck(b)
    \/ \E b \in BlobIds : CheckUploadingWrite(b)
    \/ \E b \in BlobIds : ImageHasBeenUploaded(b)
    \/ \E b \in BlobIds : StartRecognitionStep(b)
    \/ \E b \in BlobIds : GetLabels(b)
    \/ \E b \in BlobIds : TransformLabels(b)
    \/ \E b \in BlobIds : SaveLabels(b)
    \/ \E b \in BlobIds : InvokeCallback(b)
    \/ \E b \in BlobIds : GetRecognitionResultHandler(b)

SpecOrphan == InitOrphan /\ [][NextOrphan]_vars

\* The recognition machine from SaveLabels on, with retries.  It starts in a
\* state the workflow reaches for one blob id: initiate returned, the blob
\* was uploaded, the watchdog saw it or timed the record out after
\* StartRecognition, GetLabels returned a raw result and TransformLabels
\* returned its labels; the bucket delivers a notification at least once, so
\* a second one for the object may be pending.
Detection2 == [Name |-> "baz", Confidence |-> Num(0), Parents |-> << >>]
RawSamples ==
    { [Labels |-> labels] :
         labels \in { << >>, Raw1.Labels, << Detection2 >>,
                      Raw1.Labels \o << Detection2 >> } }

InitSteps ==
    \E b \in BlobIds, raw \in RawSamples, seen \in BOOLEAN, pending \in 0..1 :
        LET url == Url("http", "foo.bar")
            only(v, idle) == [c \in BlobIds |-> IF c = b THEN v ELSE idle]
        IN  /\ store = update_status(create(<< >>, b, url, WAITING_FOR_UPLOAD), b,
                                     IF seen THEN IN_PROGRESS ELSE UPLOAD_TIMED_OUT)
            /\ bucket = {b}
            /\ slots = {b}
            /\ uploadingExecutions = {b}
            /\ recognitionExecutions = {b}
            /\ init = only(InitReturn([IdleInit EXCEPT
                                           !.callback_url = url,
                                           !.upload_url = generate_presigned_url(b)],
                                       UploadInitializingResult(
                                           b, generate_presigned_url(b), url)),
                           IdleInit)
            /\ wd = only(IF seen THEN "returned" ELSE "written", "none")
            /\ uploads = only(1, 0)
            /\ events = only(pending, 0)
            /\ sr = only(0, 0)
            /\ pipe = only([pc |-> "SaveLabels",
                            event |-> RecognitionStepFunctionResult(
                                          b, _transform(raw))],
                           IdlePipe)
            /\ posts = only(<< >>, << >>)
            /\ detections = only(<< [kind |-> "returned", value |-> raw] >>, << >>)
            /\ reply = only(NoResult, NoResult)

NextSteps ==
    \/ \E b \in BlobIds : ImageHasBeenUploaded(b)
    \/ \E b \in BlobIds : StartRecognitionStep(b)
    \/ \E b \in BlobIds : SaveLabels(b)
    \/ \E b \in BlobIds : InvokeCallback(b)
    \/ \E b \in BlobIds : RetryStep(b)

SpecSteps == InitSteps /\ [][NextSteps]_vars

\* InvokeCallback on its own, with a transport that may do anything a
\* request does: answer with any of a range of status codes, or raise any
\* of the exceptions of requests.exceptions.  The step starts as SaveLabels
\* left it for one blob id: the labels saved on a record whose status is
\* IN_PROGRESS, or UPLOAD_TIMED_OUT when the watchdog wrote late.
StatusCodes == { 200, 201, 202, 204, 205, 301, 400, 404, 500, 503 }
ExceptionClasses ==
    { "ConnectTimeout", "ConnectionError", "SSLError", "ProxyError",
      "ReadTimeout", "TooManyRedirects" }
AnyTransportOutcomes ==
    { [kind |-> "response", status_code |-> code] : code \in StatusCodes }
    \cup { [kind |-> class] : class \in ExceptionClasses }

InitInvoker ==
    \E b \in BlobIds, labels \in SavedLabelLists, seen \in BOOLEAN :
        LET url == Url("http", "foo.bar")
            only(v, idle) == [c \in BlobIds |-> IF c = b THEN v ELSE idle]
            raw == [Labels |-> [i \in 1..Len(labels) |->
                       [Name |-> labels[i].label,
                        Confidence |-> labels[i].confidence,
                        Parents |-> [j \in 1..Len(labels[i].parents) |->
                                        [Name |-> labels[i].parents[j]]]]]]
        IN  /\ store = save_labels(
                         update_status(create(<< >>, b, url, WAITING_FOR_UPLOAD), b,
                                       IF seen THEN IN_PROGRESS ELSE UPLOAD_TIMED_OUT),
                         b, labels)
            /\ bucket = {b}
            /\ slots = {b}
            /\ uploadingExecutions = {b}
            /\ recognitionExecutions = {b}
            /\ init = only(InitReturn([IdleInit EXCEPT
                                           !.callback_url = url,
                                           !.upload_url = generate_presigned_url(b)],
                                       UploadInitializingResult(
                                           b, generate_presigned_url(b), url)),
                           IdleInit)
            /\ wd = only(IF seen THEN "returned" ELSE "written", "none")
            /\ uploads = only(1, 0)
            /\ events = only(0, 0)
            /\ sr = only(0, 0)
            /\ pipe = only([pc |-> "InvokeCallback",
                            event |-> RecognitionStepFunctionResult(b, labels)],
                           IdlePipe)
            /\ posts = only(<< >>, << >>)
            /\ detections = only(<< [kind |-> "returned", value |-> raw] >>, << >>)
            /\ reply = only(NoResult, NoResult)

NextInvoker == \E b \in BlobIds : InvokeCallback_with(b, AnyTransportOutcomes)

SpecInvoker == InitInvoker /\ [][NextInvoker]_vars

\* The get-result handler on its own, with the use case replaced by one that
\* answers as told (the handler takes its use case as a constructor
\* argument): a result, any of the exceptions of exception.py that the use
\* case may raise, with or without message and payload, or an error that is
\* none of them.  Each request is answered once.
ExceptionMessages == { "", "Recognition is in progress." }
ExceptionPayloads(b) ==
    { << >> } \cup { [blob_id |-> b, status |-> s] : s \in RecognitionStatus }
UseCaseOutcomes(b) ==
    { [kind |-> "returned", value |-> BlobRecognitionResult(b, labels)] :
         labels \in SavedLabelLists }
    \cup { Raised(exception, message, payload) :
              exception \in GetRecognitionResultHandler_Caught
                            \cup { "RecognitionStepHasBeenFailed" },
              message \in ExceptionMessages,
              payload \in ExceptionPayloads(b) }
    \cup { AttributeError, ValueError }

AnswerRequest(b, outcome) ==
    /\ reply[b] = NoResult
    /\ GetRecognitionResultHandler_with(b, outcome)

NextAdapter ==
    \E b \in BlobIds : \E outcome \in UseCaseOutcomes(b) : AnswerRequest(b, outcome)

SpecAdapter == Init /\ [][NextAdapter]_vars

\* Two blobs side by side.  Both uploads were initiated (two requests, two
\* generated ids, the same callback url): each has its record, its presigned
\* url and its watchdog waiting.  From there every operation of the workflow
\* runs for either blob in any order: the watchdog, the upload and its
\* notification, StartRecognition, the steps of the recognition machine, the
\* fallback and the result reader.  Nothing here depends on BlobIds.
Pair == { 1, 2 }

\* the caller asks for the result of a blob once, after its execution ended
\* with the callback answered
ReadResultWhenDone(b) ==
    /\ reply[b] = NoResult
    /\ pipe[b].pc = "succeeded"
    /\ GetRecognitionResultHandler(b)

InitPair ==
    LET url == Url("http", "foo.bar")
        table == create(create(<< >>, 1, url, WAITING_FOR_UPLOAD),
                        2, url, WAITING_FOR_UPLOAD)
    IN  /\ store = table
        /\ bucket = {}
        /\ slots = Pair
        /\ uploadingExecutions = Pair
        /\ recognitionExecutions = {}
        /\ init = [b \in Pair |->
                     InitReturn([IdleInit EXCEPT
                                    !.callback_url = url,
                                    !.upload_url = generate_presigned_url(b)],
                                UploadInitializingResult(
                                    b, generate_presigned_url(b), url))]
        /\ wd = [b \in Pair |-> "waiting"]
        /\ uploads = [b \in Pair |-> 0]
        /\ events = [b \in Pair |-> 0]
        /\ sr = [b \in Pair |-> 0]
        /\ pipe = [b \in Pair |-> IdlePipe]
        /\ posts = [b \in Pair |-> << >>]
        /\ detections = [b \in Pair |-> << >>]
        /\ reply = [b \in Pair |-> NoResult]

NextPair ==
    \/ \E b \in Pair : CheckUploadingCheck(b)
    \/ \E b \in Pair : CheckUploadingWrite(b)
    \/ \E b \in Pair : ClientUpload(b)
    \/ \E b \in Pair : ImageHasBeenUploaded(b)
    \/ \E b \in Pair : StartRecognitionStep(b)
    \/ \E b \in Pair : GetLabels(b)
    \/ \E b \in Pair : TransformLabels(b)
    \/ \E b \in Pair : SaveLabels(b)
    \/ \E b \in Pair : InvokeCallback(b)
    \/ \E b \in Pair : UnexpectedErrorFallbackHandler(b)
    \/ \E b \in Pair : ReadResultWhenDone(b)

SpecPair == InitPair /\ [][NextPair]_vars

\* ================================================================== claims
\* the watchdog of the blob id has written the time-out
WasTimedOut(b) == wd[b] = "written"

\* a recognition execution exists for the blob id
RunsPipeline(b) == pipe[b].pc # "idle"

\* C1: once a record's status is UPLOAD_TIMED_OUT it stays UPLOAD_TIMED_OUT
\* in every later state, also when the upload arrives late and the
\* upload-event trigger runs StartRecognition for the blob id.
C1_TimedOutIsNeverOverwritten ==
    [][\A b \in BlobIds :
          StatusOf(b) = UPLOAD_TIMED_OUT => StatusOf(b)' = UPLOAD_TIMED_OUT]_vars

\* the edges of the status machine of the data model; "none" -> waiting is
\* the creation of the record
StatusEdges ==
    { << "none", WAITING_FOR_UPLOAD >>,
      << WAITING_FOR_UPLOAD, UPLOAD_TIMED_OUT >>,
      << WAITING_FOR_UPLOAD, IN_PROGRESS >> }
    \cup ({ IN_PROGRESS } \X
          { INVALID_BLOB_HAS_BEEN_UPLOADED, TOO_LARGE_BLOB_HAS_BEEN_UPLOADED,
            SUCCESS, FAILED_DUE_TO_CALLBACK_FAILURE,
            FAILED_DUE_TO_CALLBACK_TIME_OUT, FAILED_DUE_TO_CALLBACK_CONNECTION })

\* C2: every change of the persisted status of a record follows an edge of
\* the status machine; the status never goes back to an earlier state.
C2_StatusFollowsEdges ==
    [][\A b \in BlobIds :
          StatusOf(b)' # StatusOf(b) =>
              << StatusOf(b), StatusOf(b)' >> \in StatusEdges]_vars

\* C3: under every interleaving of the watchdog and StartRecognition for one
\* blob id, the status becomes UPLOAD_TIMED_OUT only from WAITING_FOR_UPLOAD:
\* a record that is IN_PROGRESS or later is never set to UPLOAD_TIMED_OUT.
C3_TimeOutOnlyFromWaiting ==
    [][\A b \in BlobIds :
          StatusOf(b) # UPLOAD_TIMED_OUT /\ StatusOf(b)' = UPLOAD_TIMED_OUT =>
              StatusOf(b) = WAITING_FOR_UPLOAD]_vars

\* C4: after the watchdog has set a record to UPLOAD_TIMED_OUT no recognition
\* workflow is launched for the blob id and no pipeline step executes for it.
C4_NoPipelineAfterTimeOut ==
    [][\A b \in BlobIds :
          WasTimedOut(b) =>
              /\ pipe'[b] = pipe[b]
              /\ (b \in recognitionExecutions' <=> b \in recognitionExecutions)]_vars

\* the record InitializeUploadListening creates for a blob id
CreatedItem(b) ==
    [blob_id |-> [S |-> b], callback_url |-> [S |-> init[b].callback_url],
     status |-> [S |-> WAITING_FOR_UPLOAD]]

\* C5: for every well-formed absolute http/https callback url, initiate (when
\* no collaborator fails) returns {blob_id, upload_url, callback_url} with
\* the issued upload url, has created the record of the blob id with that
\* callback url, launched the upload-tracking workflow and requested the
\* upload slot; the record it creates has status WAITING_FOR_UPLOAD.
C5_InitiateSucceedsForValidUrl ==
    /\ [](\A b \in BlobIds :
            is_valid_url(init[b].callback_url) /\ init[b].pc = InitDone =>
                \/ init[b].result = InfrastructureError
                \/ /\ init[b].result =
                         UploadInitializingResult(b, generate_presigned_url(b),
                                                  init[b].callback_url)
                   /\ HasRecord(b)
                   /\ store[b].blob_id = [S |-> b]
                   /\ store[b].callback_url = [S |-> init[b].callback_url]
                   /\ b \in uploadingExecutions
                   /\ b \in slots)
    /\ [][\A b \in BlobIds :
            ~HasRecord(b) /\ HasRecord(b)' => store'[b] = CreatedItem(b)]_vars

C5_Witness ==
    \E b \in BlobIds :
        /\ init[b].result.kind = "returned"
        /\ init[b].callback_url = Url("https", "example.com")
        /\ StatusOf(b) = WAITING_FOR_UPLOAD

\* C6: for every callback url that is not a well-formed absolute http/https
\* url, initiate fails with CallbackUrlIsNotValid whose payload echoes the
\* url, and nothing happened before: no record, no workflow, no upload slot.
C6_InvalidUrlHasNoSideEffect ==
    \A b \in BlobIds :
        init[b].pc # 0 /\ ~is_valid_url(init[b].callback_url) =>
            /\ ~HasRecord(b)
            /\ b \notin uploadingExecutions
            /\ b \notin slots
            /\ init[b].pc = InitDone =>
                  /\ init[b].result.kind = "raised"
                  /\ init[b].result.exception = "CallbackUrlIsNotValid"
                  /\ init[b].result.payload = [callback_url |-> init[b].callback_url]

C6_Witness ==
    \E b \in BlobIds :
        /\ init[b].pc = InitDone
        /\ init[b].callback_url = Url("ftp", "foo.bar")
        /\ init[b].result.kind = "raised"

\* C7: the side effects of initiate happen in the order record, workflow,
\* slot: in no reachable state, also after initiate was cut short, is there
\* an upload slot or a launched workflow for a blob id without a record, or
\* an upload slot for a blob id whose workflow was not launched.
C7_RecordBeforeWorkflowBeforeSlot ==
    \A b \in BlobIds :
        /\ b \in uploadingExecutions => HasRecord(b)
        /\ b \in slots => HasRecord(b) /\ b \in uploadingExecutions

C7_Witness ==
    \E b \in BlobIds :
        /\ init[b].result = InfrastructureError
        /\ b \in uploadingExecutions
        /\ b \notin slots

\* C8: a watchdog check that finds the object in the bucket is a no-op: the
\* step in which it returns leaves every record as it was.
C8_UploadedBlobIsNoOp ==
    [][\A b \in BlobIds :
          wd[b] = "waiting" /\ wd'[b] = "returned" => store' = store]_vars

C8_Witness ==
    \E b \in BlobIds :
        wd[b] = "returned" /\ b \in bucket /\ StatusOf(b) = WAITING_FOR_UPLOAD

\* C9: a watchdog check that found the object missing, on a record that is
\* WAITING_FOR_UPLOAD, leaves the record UPLOAD_TIMED_OUT.
C9_MissingBlobTimesOut ==
    [][\A b \in BlobIds :
          wd[b] = "write" /\ wd'[b] = "written"
          /\ StatusOf(b) = WAITING_FOR_UPLOAD =>
              StatusOf(b)' = UPLOAD_TIMED_OUT]_vars

C9_Witness ==
    \E b \in BlobIds :
        wd[b] = "written" /\ b \notin bucket /\ StatusOf(b) = UPLOAD_TIMED_OUT

\* C10: StartRecognition writes IN_PROGRESS and then launches the recognition
\* workflow of the blob id: when it ends the workflow has been launched, and
\* no blob id has a recognition workflow while its record is still
\* WAITING_FOR_UPLOAD.
C10_InProgressBeforeLaunch ==
    /\ [](\A b \in BlobIds :
            b \in recognitionExecutions \/ RunsPipeline(b) =>
                StatusOf(b) \notin { "none", WAITING_FOR_UPLOAD })
    /\ [][\A b \in BlobIds :
            /\ sr[b] = 1 /\ sr'[b] = 2 => StatusOf(b)' = IN_PROGRESS
            /\ sr[b] # 0 /\ sr'[b] = 0 => b \in recognitionExecutions']_vars

C10_Witness ==
    \E b \in BlobIds :
        /\ pipe[b].pc = "GetLabels"
        /\ StatusOf(b) = IN_PROGRESS
        /\ sr[b] = 0

\* the status GetLabels is to write for a classified error of the detection
ClassifiedStatus(exception) ==
    CASE exception = "InvalidBlobHasBeenUploaded" -> INVALID_BLOB_HAS_BEEN_UPLOADED
      [] exception = "TooLargeBlobHasBeenUploaded" -> TOO_LARGE_BLOB_HAS_BEEN_UPLOADED

\* the last call of detect_labels for the blob id
LastDetection(b) == detections[b][Len(detections[b])]

\* C11: when detect_labels raises the classified invalid-format (too-large)
\* error, the GetLabels step leaves the record INVALID_BLOB_UPLOADED
\* (TOO_LARGE_BLOB_UPLOADED) and ends the execution with
\* RecognitionStepHasBeenFailed; a failed execution runs no later step.
C11_ClassifiedDetectionErrorSetsStatus ==
    /\ [][\A b \in BlobIds :
            /\ pipe[b].pc = "GetLabels" /\ pipe'[b].pc # "GetLabels"
            /\ LastDetection(b)'.kind = "raised"
            /\ LastDetection(b)'.exception \in
                  { "InvalidBlobHasBeenUploaded", "TooLargeBlobHasBeenUploaded" }
            => /\ StatusOf(b)' = ClassifiedStatus(LastDetection(b)'.exception)
               /\ pipe'[b] = Failed("RecognitionStepHasBeenFailed")]_vars
    /\ [][\A b \in BlobIds :
            pipe[b].pc = "failed" =>
                pipe'[b].pc \notin { "TransformLabels", "SaveLabels",
                                     "InvokeCallback", "succeeded" }]_vars

\* the callback attempt InvokeCallback made last for the blob id
LastPost(b) == posts[b][Len(posts[b])]

\* the status the claim gives for each of the four classified outcomes
C12_StatusFor(outcome) ==
    CASE outcome = [kind |-> "response", status_code |-> 204] -> SUCCESS
      [] outcome.kind = "response" /\ outcome.status_code # 204 ->
            FAILED_DUE_TO_CALLBACK_FAILURE
      [] outcome.kind = "ConnectTimeout" -> FAILED_DUE_TO_CALLBACK_TIME_OUT
      [] outcome.kind = "ConnectionError" -> FAILED_DUE_TO_CALLBACK_CONNECTION

\* C12: a callback attempt that ends with HTTP 204, another HTTP status, a
\* connect timeout or a connection error makes InvokeCallback write SUCCESS,
\* FAILED_CALLBACK_FAILURE, FAILED_CALLBACK_TIMEOUT or
\* FAILED_CALLBACK_CONNECTION respectively, and return {blob_id, labels}
\* with the labels it was given.
C12_CallbackOutcomeSetsStatus ==
    [][\A b \in BlobIds :
          /\ pipe[b].pc = "InvokeCallback"
          /\ Len(posts'[b]) = Len(posts[b]) + 1
          /\ LastPost(b)'.outcome.kind \in
                { "response", "ConnectTimeout", "ConnectionError" }
          => /\ StatusOf(b)' = C12_StatusFor(LastPost(b)'.outcome)
             /\ pipe'[b].pc = "succeeded"
             /\ pipe'[b].event = [blob_id |-> b, labels |-> pipe[b].event.labels]]_vars

C12_Witness ==
    \E b \in BlobIds :
        /\ pipe[b].pc = "succeeded"
        /\ posts[b] # << >>
        /\ LastPost(b).outcome.kind = "ConnectTimeout"
        /\ StatusOf(b) = FAILED_DUE_TO_CALLBACK_TIME_OUT
        /\ pipe[b].event.labels # << >>

\* the result reader answered in this step for the blob id
Answered(b) == reply'[b] # reply[b]

\* labels, as a use case returns them, are the ones stored on the record
SameAsPersisted(labels, b) ==
    LET stored == IF "labels" \in DOMAIN store[b] THEN store[b].labels.L
                  ELSE << >>
    IN  /\ Len(labels) = Len(stored)
        /\ \A i \in 1..Len(stored) :
              /\ labels[i].label = stored[i].M.label.S
              /\ str(labels[i].confidence) = stored[i].M.confidence.N
              /\ Len(labels[i].parents) = Len(stored[i].M.parents.L)
              /\ \A j \in 1..Len(labels[i].parents) :
                    labels[i].parents[j] = stored[i].M.parents.L[j].S

DeliveryStatuses ==
    { SUCCESS, FAILED_DUE_TO_CALLBACK_FAILURE, FAILED_DUE_TO_CALLBACK_TIME_OUT,
      FAILED_DUE_TO_CALLBACK_CONNECTION }

\* C13: for a record whose status is SUCCESS or one of the three
\* FAILED_CALLBACK statuses, get_result returns {blob_id, labels} with the
\* labels stored on the record and raises nothing.
C13_DeliveryOutcomeDoesNotHideLabels ==
    [][\A b \in BlobIds :
          Answered(b) /\ StatusOf(b) \in DeliveryStatuses =>
              /\ reply'[b].kind = "returned"
              /\ DOMAIN reply'[b].value = { "blob_id", "labels" }
              /\ reply'[b].value.blob_id = b
              /\ SameAsPersisted(reply'[b].value.labels, b)]_vars

C13_Witness ==
    \E b \in BlobIds :
        /\ StatusOf(b) = FAILED_DUE_TO_CALLBACK_CONNECTION
        /\ reply[b].kind = "returned"
        /\ reply[b].value.labels = << Label1, Label2 >>

\* C14: for a record whose status is INVALID_BLOB_UPLOADED
\* (TOO_LARGE_BLOB_UPLOADED), get_result raises InvalidBlobHasBeenUploaded
\* (TooLargeBlobHasBeenUploaded) with payload {blob_id, status}, decided from
\* the stored status; it does not return {blob_id, labels}.
C14_UploadContentErrorIsReRaised ==
    [][\A b \in BlobIds :
          /\ Answered(b)
          /\ StatusOf(b) \in { INVALID_BLOB_HAS_BEEN_UPLOADED,
                               TOO_LARGE_BLOB_HAS_BEEN_UPLOADED }
          => /\ reply'[b].kind = "raised"
             /\ reply'[b].exception =
                   IF StatusOf(b) = INVALID_BLOB_HAS_BEEN_UPLOADED
                   THEN "InvalidBlobHasBeenUploaded"
                   ELSE "TooLargeBlobHasBeenUploaded"
             /\ reply'[b].payload = [blob_id |-> b, status |-> StatusOf(b)]]_vars

\* the exception the claim names for a status that disallows the read
C15_ExceptionFor(status) ==
    CASE status = WAITING_FOR_UPLOAD -> "BlobIsNotUploadedYet"
      [] status = UPLOAD_TIMED_OUT -> "BlobUploadTimedOut"
      [] status = IN_PROGRESS -> "BlobRecognitionIsInProgress"

\* C15: for a record whose status is WAITING_FOR_UPLOAD, UPLOAD_TIMED_OUT or
\* IN_PROGRESS, get_result raises BlobIsNotUploadedYet, BlobUploadTimedOut or
\* BlobRecognitionIsInProgress respectively, with payload {blob_id, status}
\* holding the status of the record, and returns no labels.
C15_UnfinishedStatusIsAnError ==
    [][\A b \in BlobIds :
          /\ Answered(b)
          /\ StatusOf(b) \in { WAITING_FOR_UPLOAD, UPLOAD_TIMED_OUT, IN_PROGRESS }
          => /\ reply'[b].kind = "raised"
             /\ reply'[b].exception = C15_ExceptionFor(StatusOf(b))
             /\ reply'[b].payload = [blob_id |-> b, status |-> StatusOf(b)]
             /\ "value" \notin DOMAIN reply'[b]]_vars

C15_Witness ==
    \E b \in BlobIds :
        /\ StatusOf(b) = UPLOAD_TIMED_OUT
        /\ "labels" \in DOMAIN store[b]
        /\ store[b].labels.L # << >>
        /\ reply[b].kind = "raised"
        /\ reply[b].exception = "BlobUploadTimedOut"

\* C16: for a blob id without a record, get_result raises BlobWasNotFound
\* with payload {blob_id, status: NOT_FOUND} and creates no record.
C16_MissingRecordIsNotFound ==
    [][\A b \in BlobIds :
          Answered(b) /\ ~HasRecord(b) =>
              /\ reply'[b].kind = "raised"
              /\ reply'[b].exception = "BlobWasNotFound"
              /\ reply'[b].payload = [blob_id |-> b, status |-> NOT_FOUND]
              /\ store' = store]_vars

C16_Witness ==
    \E b \in BlobIds :
        /\ ~HasRecord(b)
        /\ reply[b].kind = "raised"
        /\ reply[b].exception = "BlobWasNotFound"

\* the fallback ran in this step for the failed execution of the blob id
FellBack(b) == pipe[b].pc = "failed" /\ pipe'[b].pc = "fallback"

\* C17: the unexpected-error fallback, given an event whose execution name
\* is a blob id, sets the status of that record to UNEXPECTED_ERROR and
\* leaves the other records alone; given an event without an execution name
\* it changes no record.
C17_FallbackWritesUnexpectedError ==
    [][\A b \in BlobIds :
          FellBack(b) =>
              IF "ExecutionName" \in DOMAIN pipe'[b].event
              THEN LET name == pipe'[b].event.ExecutionName
                   IN  /\ name \in DOMAIN store'
                       /\ store'[name].status = [S |-> UNEXPECTED_ERROR]
                       /\ \A c \in DOMAIN store :
                             c # name => store'[c] = store[c]
              ELSE store' = store]_vars

C17_Witness ==
    \E b \in BlobIds :
        /\ pipe[b].pc = "fallback"
        /\ pipe[b].event = [ExecutionName |-> b,
                            Error |-> "InvalidBlobHasBeenUploaded"]
        /\ StatusOf(b) = UNEXPECTED_ERROR

\* the nine statuses of the life of a record
LifecycleStatuses == RecognitionStatus \ { NOT_FOUND, UNEXPECTED_ERROR }

Transformed(b) == pipe[b].pc = "TransformLabels" /\ pipe'[b].pc # "TransformLabels"

\* C19: TransformLabels maps the raw detections position by position:
\* {Name, Confidence, Parents: [{Name}..]} becomes {label: Name, confidence:
\* Confidence, parents: [the parents' names in order]}, a missing Name is
\* "", a missing Confidence "", missing Parents []; the blob id passes
\* through, and the output is as long as the input Labels, in their order.
C19_TransformIsPositionwise ==
    [][\A b \in BlobIds :
          Transformed(b) /\ "Labels" \in DOMAIN pipe[b].event.labels =>
              LET raw == pipe[b].event.labels.Labels
                  out == pipe'[b].event.labels
              IN  /\ pipe'[b].pc = "SaveLabels"
                  /\ pipe'[b].event.blob_id = pipe[b].event.blob_id
                  /\ Len(out) = Len(raw)
                  /\ \A i \in 1..Len(raw) :
                        /\ DOMAIN out[i] = { "label", "confidence", "parents" }
                        /\ out[i].label =
                              IF "Name" \in DOMAIN raw[i] THEN raw[i].Name ELSE ""
                        /\ out[i].confidence =
                              IF "Confidence" \in DOMAIN raw[i]
                              THEN raw[i].Confidence ELSE Str("")
                        /\ IF "Parents" \in DOMAIN raw[i]
                           THEN /\ Len(out[i].parents) = Len(raw[i].Parents)
                                /\ \A j \in 1..Len(raw[i].Parents) :
                                      out[i].parents[j] =
                                         IF "Name" \in DOMAIN raw[i].Parents[j]
                                         THEN raw[i].Parents[j].Name ELSE ""
                           ELSE out[i].parents = << >>]_vars

C19_Witness ==
    \E b \in BlobIds :
        /\ pipe[b].pc = "SaveLabels"
        /\ pipe[b].event.labels =
              << [label |-> "", confidence |-> Str(""), parents |-> << >>],
                 [label |-> "foo", confidence |-> Num(100),
                  parents |-> << "bar", "baz" >>] >>

\* C20: TransformLabels never fails: for every raw detection result, also
\* one without 'Labels', with an empty list or with detections that miss
\* any of Name, Confidence and Parents, the step returns a result.
C20_TransformNeverFails ==
    [][\A b \in BlobIds :
          Transformed(b) => pipe'[b].pc = "SaveLabels"]_vars

\* C21: SaveLabels(blob_id, labels) persists exactly the given label
\* sequence on the record, leaves the record's status and callback_url as
\* they were, and returns {blob_id, labels} with the labels it was given.
SavedLabelsStep(b) == pipe[b].pc = "SaveLabels" /\ pipe'[b].pc = "InvokeCallback"

C21_SaveLabelsPersistsGivenLabels ==
    [][\A b \in BlobIds :
          SavedLabelsStep(b) =>
              LET e == pipe[b].event
              IN  /\ b \in DOMAIN store'
                  /\ get_blob(store', b).kind = "returned"
                  /\ get_blob(store', b).labels = e.labels
                  /\ store'[b].status = store[b].status
                  /\ store'[b].callback_url = store[b].callback_url
                  /\ pipe'[b].event = [blob_id |-> b, labels |-> e.labels]]_vars

C21_Witness ==
    \E b \in BlobIds :
        /\ pipe[b].pc = "InvokeCallback"
        /\ Len(pipe[b].event.labels) = 2
        /\ HasRecord(b)
        /\ "labels" \in DOMAIN store[b]
        /\ Len(store[b].labels.L) = 2
        /\ StatusOf(b) = UPLOAD_TIMED_OUT

\* the end-to-end scenario for blob b: a valid callback URL was given, the
\* object was there when the watchdog checked, it was uploaded once, and
\* detect_labels returned the one detection
EndToEndScenario(b) ==
    /\ wd[b] = "returned"
    /\ uploads[b] = 1
    /\ detections[b] = << [kind |-> "returned", value |-> Raw1] >>
    /\ init[b].pc = InitDone
    /\ is_valid_url(init[b].callback_url)

Delivered204(b) ==
    /\ pipe[b].pc = "succeeded"
    /\ LastPost(b).outcome = [kind |-> "response", status_code |-> 204]

\* C22: in the end-to-end scenario the record is IN_PROGRESS from
\* StartRecognition until InvokeCallback, a 204 from the callback leaves it
\* SUCCESS, and get_result then returns {blob_id, labels} with the one
\* label and no error.
C22_EndToEndSucceeds ==
    \A b \in BlobIds :
        EndToEndScenario(b) =>
            /\ pipe[b].pc \in { "TransformLabels", "SaveLabels", "InvokeCallback" }
                   => StatusOf(b) = IN_PROGRESS
            /\ Delivered204(b) =>
                   /\ StatusOf(b) = SUCCESS
                   /\ LastPost(b).json = [blob_id |-> b, labels |-> << Label1 >>]
                   /\ reply[b] # NoResult =>
                          /\ reply[b].kind = "returned"
                          /\ reply[b].value = [blob_id |-> b,
                                               labels |-> << Label1 >>]

C22_Witness ==
    \E b \in BlobIds :
        /\ EndToEndScenario(b)
        /\ Delivered204(b)
        /\ reply[b] # NoResult

\* C23: within one pipeline run the callback POST is executed at most once:
\* whatever the outcome of the attempt, InvokeCallback is over after it and
\* makes no second request.
C23_CallbackPostedAtMostOnce ==
    \A b \in BlobIds :
        /\ Len(posts[b]) <= 1
        /\ posts[b] # << >> => pipe[b].pc \in { "succeeded", "failed" }

C23_Witness ==
    \E b \in BlobIds :
        /\ Len(posts[b]) = 1
        /\ LastPost(b).outcome.kind = "ConnectTimeout"
        /\ pipe[b].pc = "succeeded"
        /\ StatusOf(b) = FAILED_DUE_TO_CALLBACK_TIME_OUT

\* C24: an error of a collaborator that the core does not classify is never
\* swallowed: when the watchdog's existence check fails for a reason other
\* than the object being absent (the object is in the bucket and head_object
\* raises, a permission error say), the invocation ends there and does not
\* go on to write UPLOAD_TIMED_OUT.
C24_UnclassifiedCheckErrorPropagates ==
    [][\A b \in BlobIds :
          wd[b] = "waiting" /\ wd'[b] = "write" => b \notin bucket]_vars

\* C25: GetLabels returns {blob_id, labels} with the raw detection result
\* as labels and changes no record; an error of detect_labels other than the
\* two classified ones leaves the step as it was raised, and the record's
\* status stays what it was.
C25_GetLabelsPassesResultOrError ==
    [][\A b \in BlobIds :
          pipe[b].pc = "GetLabels" /\ pipe'[b].pc # "GetLabels" =>
              LET d == LastDetection(b)'
              IN  /\ d.kind = "returned" =>
                        /\ pipe'[b] = [pc |-> "TransformLabels",
                                       event |-> [blob_id |-> b,
                                                  labels |-> d.value]]
                        /\ store' = store
                  /\ ( /\ d.kind = "raised"
                       /\ d.exception \notin { "InvalidBlobHasBeenUploaded",
                                               "TooLargeBlobHasBeenUploaded" } ) =>
                        /\ pipe'[b] = [pc |-> "failed", error |-> d.exception]
                        /\ store' = store]_vars

C25_Witness ==
    \E b \in BlobIds :
        /\ pipe[b] = [pc |-> "failed", error |-> "ClientError"]
        /\ LastDetection(b) = [kind |-> "raised", exception |-> "ClientError"]
        /\ StatusOf(b) = IN_PROGRESS

\* the seven failures the spec calls classified for get_result
C26_ClassifiedFailures ==
    { "BlobWasNotFound", "BlobIsNotUploadedYet", "BlobUploadTimedOut",
      "BlobRecognitionIsInProgress", "InvalidBlobHasBeenUploaded",
      "TooLargeBlobHasBeenUploaded", "UnexpectedErrorOccurred" }

\* C26: the get-result adapter answers HTTP 200 with the result as body when
\* get_result returns, and HTTP 404 with {description, payload} of the
\* failure when get_result fails with any of the seven classified failures;
\* none of those leaves the adapter as an exception.
C26_AdapterAnswers200Or404 ==
    \A b \in BlobIds :
        reply[b] # NoResult =>
            /\ reply[b].kind = "returned" =>
                  /\ "statusCode" \in DOMAIN reply[b].http
                  /\ reply[b].http.statusCode = 200
                  /\ loads(reply[b].http.body) = reply[b].value
            /\ ( /\ reply[b].kind = "raised"
                 /\ reply[b].exception \in C26_ClassifiedFailures ) =>
                  /\ "statusCode" \in DOMAIN reply[b].http
                  /\ reply[b].http.statusCode = 404
                  /\ loads(reply[b].http.body) =
                        [description |-> reply[b].message,
                         payload |-> reply[b].payload]

C26_Witness ==
    \E b \in BlobIds :
        /\ reply[b] # NoResult
        /\ reply[b].kind = "raised"
        /\ reply[b].exception = "UnexpectedErrorOccurred"
        /\ reply[b].payload = [blob_id |-> b, status |-> UNEXPECTED_ERROR]
        /\ reply[b].http.statusCode = 404

\* C27: the initiate-upload adapter passes a generated blob id and the
\* callback URL of the request to initiate; it answers HTTP 201 with
\* {blob_id, upload_url, callback_url} when initiate returns and HTTP 400
\* with {description, payload} when initiate rejects the callback URL.
C27_InitiateAdapterAnswers201Or400 ==
    \A b \in BlobIds :
        init[b].pc = InitDone =>
            /\ init[b].result.kind = "returned" =>
                  /\ "statusCode" \in DOMAIN init[b].response
                  /\ init[b].response.statusCode = 201
                  /\ loads(init[b].response.body) =
                        [blob_id |-> b,
                         upload_url |-> generate_presigned_url(b),
                         callback_url |-> init[b].callback_url]
                  /\ HasRecord(b)
                  /\ store[b].blob_id = [S |-> b]
                  /\ store[b].callback_url = [S |-> init[b].callback_url]
            /\ ~is_valid_url(init[b].callback_url) =>
                  /\ init[b].result.kind = "raised"
                  /\ init[b].result.exception = "CallbackUrlIsNotValid"
                  /\ "statusCode" \in DOMAIN init[b].response
                  /\ init[b].response.statusCode = 400
                  /\ loads(init[b].response.body) =
                        [description |-> "Invalid callback url supplied.",
                         payload |-> [callback_url |-> init[b].callback_url]]

C27_Witness ==
    \E b \in BlobIds :
        /\ init[b].pc = InitDone
        /\ init[b].callback_url = Url("ftp", "foo.bar")
        /\ "statusCode" \in DOMAIN init[b].response
        /\ init[b].response.statusCode = 400
        /\ ~HasRecord(b)

\* C28: a record, once created, is there in every later state with the
\* blob_id and the callback_url it was created with: no operation deletes a
\* record or writes either attribute again.
C28_RecordKeepsIdentity ==
    [][\A b \in BlobIds :
          HasRecord(b) =>
              /\ b \in DOMAIN store'
              /\ store'[b].blob_id = store[b].blob_id
              /\ "callback_url" \in DOMAIN store[b] =>
                    /\ "callback_url" \in DOMAIN store'[b]
                    /\ store'[b].callback_url = store[b].callback_url]_vars

C28_Witness ==
    \E b \in BlobIds :
        /\ HasRecord(b)
        /\ StatusOf(b) = UNEXPECTED_ERROR
        /\ "labels" \in DOMAIN store[b]
        /\ store[b].blob_id = [S |-> b]
        /\ store[b].callback_url = [S |-> Url("http", "foo.bar")]

\* the step is an operation for blob a: something of a's invocations,
\* executions, uploads or answers moved
ActsFor(a) ==
    << init[a], wd[a], uploads[a], events[a], sr[a], pipe[a], posts[a],
       detections[a], reply[a] >>' #
    << init[a], wd[a], uploads[a], events[a], sr[a], pipe[a], posts[a],
       detections[a], reply[a] >>

\* C29: operations on different blob ids are independent: a watchdog check,
\* StartRecognition, a pipeline step, the fallback or get_result for blob A
\* leaves the record of every other blob B as it was, however the operations
\* of the two blobs interleave.
C29_OtherRecordsUntouched ==
    [][\A a \in Pair : \A b \in Pair \ { a } :
          ActsFor(a) =>
              /\ ~ActsFor(b)
              /\ (b \in DOMAIN store') = (b \in DOMAIN store)
              /\ b \in DOMAIN store => store'[b] = store[b]]_vars

C29_Witness ==
    /\ StatusOf(1) = UNEXPECTED_ERROR
    /\ StatusOf(2) = SUCCESS
    /\ "labels" \in DOMAIN store[2]
    /\ reply[2] # NoResult
    /\ wd[1] = "written"

\* the step of the recognition machine about to run is a retry
Retried(b) == "retried" \in DOMAIN pipe[b]

\* C30: a step retried with the input it ran with leaves the record as the
\* first run left it.  SaveLabels run again with the same labels changes no
\* record; InvokeCallback run again, the transport answering as before,
\* on the record as its first run left it, changes no record; StartRecognition
\* run again on the record as its first run left it changes no record and
\* starts no second execution.
C30_RetriedStepKeepsRecord ==
    [][\A b \in BlobIds :
          /\ ( /\ pipe[b].pc = "SaveLabels" /\ Retried(b)
               /\ pipe'[b].pc = "InvokeCallback" ) => store' = store
          /\ ( /\ pipe[b].pc = "InvokeCallback" /\ Retried(b)
               /\ Len(posts'[b]) = 2
               /\ posts'[b][2].outcome = posts'[b][1].outcome
               /\ StatusOf(b) = C12_StatusFor(posts[b][1].outcome) ) =>
                  store' = store
          /\ ( /\ sr[b] # 0 /\ sr'[b] # sr[b]
               /\ b \in recognitionExecutions
               /\ StatusOf(b) = IN_PROGRESS ) =>
                  /\ store' = store
                  /\ pipe' = pipe
                  /\ recognitionExecutions' = recognitionExecutions]_vars

C30_Witness ==
    \E b \in BlobIds :
        /\ Len(posts[b]) = 2
        /\ posts[b][2].outcome = posts[b][1].outcome
        /\ posts[b][2].outcome.kind = "ConnectionError"
        /\ pipe[b].pc = "succeeded"
        /\ StatusOf(b) = FAILED_DUE_TO_CALLBACK_CONNECTION
        /\ Len(store[b].labels.L) = 2

\* SaveLabels has run for blob b: the execution is past the step
LabelsSaved(b) == pipe[b].pc \in { "InvokeCallback", "succeeded" }
                  \/ (pipe[b].pc \in { "failed", "fallback" } /\ posts[b] # << >>)

\* C31: a record carries labels only from the label-persistence step
\* onward: a record whose status is WAITING_FOR_UPLOAD or UPLOAD_TIMED_OUT,
\* or for whose blob SaveLabels has not run, has no labels.
C31_LabelsOnlyAfterSaveLabels ==
    \A b \in BlobIds :
        ( /\ HasRecord(b)
          /\ \/ StatusOf(b) \in { WAITING_FOR_UPLOAD, UPLOAD_TIMED_OUT }
             \/ ~LabelsSaved(b) ) =>
            get_blob(store, b).labels = << >>

\* C32: for every outcome of the transport that it handles, invoke returns
\* one of SUCCESS (0), CALLBACK_FAILURE (1), CONNECTION_TIMEOUT (2) and
\* CONNECTION_ERROR (3): SUCCESS exactly for status code 204,
\* CALLBACK_FAILURE for every other status code, CONNECTION_TIMEOUT for a
\* connect timeout and CONNECTION_ERROR for every other connection error;
\* the transport is given the url, the JSON body and the configured timeout.
C32_InvokeClassifiesOutcome ==
    \A b \in BlobIds :
        posts[b] # << >> =>
            LET p == LastPost(b)
                o == p.outcome
            IN  /\ p.url = store[b].callback_url.S
                /\ p.json = [blob_id |-> b, labels |-> get_blob(store, b).labels]
                /\ p.timeout = CALLBACK_TIMEOUT
                /\ o.kind = "response" =>
                      /\ p.result.kind = "returned"
                      /\ (p.result.value = 0) = (o.status_code = 204)
                      /\ o.status_code # 204 => p.result.value = 1
                /\ o.kind = "ConnectTimeout" =>
                      p.result = [kind |-> "returned", value |-> 2]
                /\ o.kind \in { "ConnectionError", "SSLError", "ProxyError" } =>
                      p.result = [kind |-> "returned", value |-> 3]
                /\ p.result.kind = "returned" => p.result.value \in 0..3

C32_Witness ==
    \E b \in BlobIds :
        /\ posts[b] # << >>
        /\ LastPost(b).outcome = [kind |-> "response", status_code |-> 201]
        /\ LastPost(b).result = [kind |-> "returned", value |-> 1]
        /\ StatusOf(b) = FAILED_DUE_TO_CALLBACK_FAILURE

\* C33: record store round trip: get_blob after create and save_labels
\* returns {blob_id, callback_url, status, labels} with the label names,
\* the numeric confidences and the parents as they were saved, in order; for
\* a record with no saved labels the labels are [], and for a blob id with
\* no record it returns None.
C33_StoreRoundTrip ==
    [][\A b \in BlobIds :
          reply'[b] # reply[b] =>
              IF ~HasRecord(b) THEN reply'[b] = None
              ELSE /\ reply'[b].kind = "returned"
                   /\ reply'[b].blob_id = b
                   /\ reply'[b].callback_url = init[b].callback_url
                   /\ reply'[b].status = store[b].status.S
                   /\ reply'[b].labels =
                         IF pipe[b].pc = "InvokeCallback"
                         THEN pipe[b].event.labels ELSE << >>]_vars

C33_Witness ==
    \E b \in BlobIds :
        /\ reply[b] # NoResult
        /\ reply[b] # None
        /\ reply[b].labels = << Label2, Label3, Label1 >>
        /\ reply[b].status = FAILED_DUE_TO_CALLBACK_TIME_OUT
        /\ reply[b].callback_url = Url("https", "example.com")

\* C34: launch(blob_id) of the workflow client starts one execution of its
\* state machine named 'uploading-execution-<blob_id>' with input
\* {"blob_id": blob_id}.
C34_ExecutionIsNamedAfterBlob ==
    \A b \in uploadingExecutions :
        /\ ExecutionName(b) = [prefix |-> "uploading-execution-", blob_id |-> b]
        /\ ExecutionInput(b) = [blob_id |-> b]

\* C35: get_result is read-only: for every table and every blob id, whether
\* it returns a result or fails, the table is the same before and after
\* the call.
C35_GetResultIsReadOnly ==
    [][\A b \in BlobIds :
          reply'[b] # reply[b] =>
              /\ reply'[b].kind \in { "returned", "raised" }
              /\ store' = store]_vars

C35_Witness ==
    \E b \in BlobIds :
        /\ reply[b] # NoResult
        /\ reply[b].kind = "raised"
        /\ reply[b].exception = "BlobIsNotUploadedYet"
        /\ StatusOf(b) = WAITING_FOR_UPLOAD
        /\ DOMAIN store[b] = { "blob_id", "callback_url", "status" }

\* C36: a record has status SUCCESS only if an InvokeCallback run for its
\* blob id got HTTP 204 from the callback, after SaveLabels for the blob id:
\* the record carries the labels that were sent.
C36_SuccessMeansDelivered ==
    \A b \in BlobIds :
        StatusOf(b) = SUCCESS =>
            /\ "labels" \in DOMAIN store[b]
            /\ \E i \in 1..Len(posts[b]) :
                  /\ posts[b][i].outcome = [kind |-> "response", status_code |-> 204]
                  /\ posts[b][i].json.blob_id = b
                  /\ posts[b][i].json.labels = get_blob(store, b).labels

C36_Witness ==
    \E b \in BlobIds :
        /\ StatusOf(b) = SUCCESS
        /\ Len(posts[b]) = 1
        /\ get_blob(store, b).labels = << Label1 >>
        /\ wd[b] = "returned"
        /\ reply[b] = NoResult

\* C37: every record in the table has a blob_id, a callback_url and a
\* status: StartRecognition, the watchdog, SaveLabels and InvokeCallback
\* invoked for a blob id that has no record create no partial record, and
\* get_result for the blob id fails with a classified error or not at all.
C37_NoPartialRecord ==
    \A b \in BlobIds :
        /\ HasRecord(b) =>
              { "blob_id", "callback_url", "status" } \subseteq DOMAIN store[b]
        /\ reply[b] # NoResult /\ reply[b].kind = "raised" =>
              reply[b].exception \in C26_ClassifiedFailures

\* C38: under fair scheduling of the watchdog and of the upload event, a
\* record that waits for its upload, and whose watchdog execution was
\* started, eventually has the status UPLOAD_TIMED_OUT or IN_PROGRESS.
C38_LeavesWaitingForUpload ==
    \A b \in BlobIds :
        (wd[b] = "waiting" /\ StatusOf(b) = WAITING_FOR_UPLOAD)
            ~> (StatusOf(b) \in { UPLOAD_TIMED_OUT, IN_PROGRESS })

\* the watchdog found the blob and wrote nothing; the upload event moved
\* the record on
C38_Witness ==
    \E b \in BlobIds :
        /\ wd[b] = "returned"
        /\ StatusOf(b) = IN_PROGRESS
        /\ sr[b] = 2

\* C39: no run of the recognition pipeline that ended without an
\* unclassified error (it succeeded, or the detection service raised one of
\* its two classified errors) leaves the record IN_PROGRESS.
C39_ClassifiedErrors ==
    { "InvalidBlobHasBeenUploaded", "TooLargeBlobHasBeenUploaded" }

C39_NoRunEndsInProgress ==
    \A b \in BlobIds :
        \/ pipe[b].pc = "succeeded"
        \/ pipe[b].pc = "failed" /\ pipe[b].error \in C39_ClassifiedErrors
        => StatusOf(b) # IN_PROGRESS

====
